---- MODULE Spec2Model ----
(***************************************************************************)
(* Event attendance / feedback / ranking back end (sgtu-event-v2).         *)
(*                                                                         *)
(* The persisted tables are the variables; every HTTP request is handled   *)
(* by a request-handling unit (a slot of req) that advances one database   *)
(* round trip (one await) at a time, so that concurrent requests           *)
(* interleave exactly where the controllers yield.                         *)
(***************************************************************************)
EXTENDS Integers, Sequences, FiniteSets, Bags, TLC

VARIABLES students, stalls, volunteers, feedbacks, rankings, check_in_outs,
          req, nreq, raced, now, qr_code_token, cache, script

\* the state of the token regeneration script and of what it works on
regen == <<qr_code_token, cache, script>>
tables == <<students, stalls, volunteers, feedbacks, rankings, check_in_outs>>
vars == <<students, stalls, volunteers, feedbacks, rankings, check_in_outs,
          req, nreq, raced, now, qr_code_token, cache, script>>

(***************************************************************************)
(* Bounds of the model.                                                    *)
(***************************************************************************)
\* concurrent request-handling units
NumSlots == 2
\* requests of each kind received in one run
MaxRankingRequests == 2
MaxScans == 4
MaxFeedbacks == 2
\* scans received in a run that also submits feedback
MaxVisitScans == 2
\* the latest reading of the clock
MaxTime == 2
\* scans received in a run in which the clock advances
MaxTimedScans == 3
\* the latest reading of the clock in a run that verifies rotating tokens,
\* and the scans received in such a run
MaxTokenTime == 5
MaxTokenScans == 2
\* scans received in a run whose requests come through the router
MaxRoutedScans == 2

Slots == 1..NumSlots

(***************************************************************************)
(* The directory: students, stalls, volunteers and their static columns.   *)
(***************************************************************************)
Students == {"p1", "p2"}
\* ids a JWT / a QR code may name; "p9" is in no students row
UserIds == Students \cup {"p9"}
Stalls == {"s1", "s2", "s3", "s4"}
\* "s9" is in no stalls row
StallIds == Stalls \cup {"s9"}
Volunteers == {"v1", "v2"}

StudentSchool(p) == "A"
StallSchool(s) == IF s = "s4" THEN "B" ELSE "A"
VolunteerActive(v) == v = "v1"

(***************************************************************************)
(* JSON values of a ranking's "rank": a number or a string.                *)
(***************************************************************************)
Num(n) == [t |-> "number", v |-> n]
Str(n) == [t |-> "string", v |-> n]
\* String(x): the text JavaScript's sort() and join() work on; the number 1
\* and the string "1" both give the text "1" (here: the digit)
JsText(x) == x.v
\* x === n for a number literal n
StrictEqNum(x, n) == x.t = "number" /\ x.v = n
\* a JSON string that is no numeral, such as "good": Number(x) is NaN
Word == [t |-> "word", v |-> 0]
\* !x : 0 and a missing field are falsy, a non-empty string is not
Falsy(x) == x.t = "number" /\ x.v = 0
\* x < n and x > n for a number literal n: false when Number(x) is NaN
JsLess(x, n) == x.t # "word" /\ x.v < n
JsGreater(x, n) == x.t # "word" /\ x.v > n

RECURSIVE Insert(_, _)
Insert(x, s) ==
    IF s = <<>> THEN <<x>>
    ELSE IF JsText(x) <= JsText(Head(s)) THEN <<x>> \o s
    ELSE <<Head(s)>> \o Insert(x, Tail(s))

RECURSIVE JsSort(_)
\* Array.prototype.sort() without a comparator: by the elements' texts
JsSort(s) == IF s = <<>> THEN <<>> ELSE Insert(Head(s), JsSort(Tail(s)))

RankSetOk_Any(rk) == TRUE

\* ranks.join(',') !== '1,2,3'
RankSetOk(rk) ==
    LET ranks == JsSort([k \in 1..Len(rk) |-> rk[k].rank])
    IN  [k \in 1..Len(ranks) |-> JsText(ranks[k])] = <<1, 2, 3>>

\* new Set(stallIds).size !== 3
StallsDistinct(rk) == Cardinality({rk[k].stall_id : k \in 1..Len(rk)}) = 3

\* the column a rank's vote goes to
ColumnName(rank) ==
    IF StrictEqNum(rank, 1) THEN "rank_1_votes"
    ELSE IF StrictEqNum(rank, 2) THEN "rank_2_votes"
    ELSE "rank_3_votes"

(***************************************************************************)
(* QR tokens stored in students.qr_code_token and stalls.qr_code_token.    *)
(***************************************************************************)
\* random parts a generated token may get
Nonces == {"a", "b"}
\* the token a row holds before the script runs (the old, long format)
OldToken(x) == [format |-> "old", of |-> x, n |-> "none"]
\* QRCodeService.generateStudentQRToken: a JWT with the payload {n, t, r}
GenerateStudentQRToken(student, n) ==
    [format |-> "jwt", of |-> student.registration_no, n |-> n]
\* QRCodeService.generateStallQRToken: STALL_{number}_{timestamp}_{id}
GenerateStallQRToken(stall, n) ==
    [format |-> "stall", of |-> stall.stall_number, n |-> n]
\* a property a row object does not have
Undefined == [format |-> "undefined", of |-> "none", n |-> "none"]
\* the script before it is started
ScriptNotRun == [pc |-> "idle", rows |-> <<>>, i |-> 0, newToken |-> Undefined,
                 replaced |-> {}, generated |-> {}]

(***************************************************************************)
(* Rows and SQL statements.                                                *)
(***************************************************************************)
StudentRow0 == [is_inside_event |-> FALSE, has_completed_ranking |-> FALSE,
                total_feedback_given |-> 0]
StallRow0 == [rank_1_votes |-> 0, rank_2_votes |-> 0, rank_3_votes |-> 0,
              weighted_score |-> 0, total_feedback_count |-> 0]
VolunteerRow0 == [total_scans_performed |-> 0]

UpdateStallVote_Twice(row, col) == [row EXCEPT ![col] = row[col] + 2]

\* UPDATE stalls SET <col> = <col> + 1, weighted_score = (rank_1_votes * 5) + ...
\* Every right-hand side of one SET list reads the row as it was before the
\* statement.
UpdateStallVote(row, col) ==
    LET score == (row.rank_1_votes * 5) + (row.rank_2_votes * 3)
                 + (row.rank_3_votes * 1)
    IN  [row EXCEPT ![col] = row[col] + 1, !.weighted_score = score]

CompleteRanking_Toggle(row) == [row EXCEPT !.has_completed_ranking = ~@]

\* UPDATE students SET has_completed_ranking = true, ... WHERE id = $1
CompleteRanking(row) == [row EXCEPT !.has_completed_ranking = TRUE]

DB == [students |-> students, stalls |-> stalls, volunteers |-> volunteers,
       feedbacks |-> feedbacks, rankings |-> rankings,
       check_in_outs |-> check_in_outs]

\* the rows Ranking.bulkCreate inserts
RankingRows(p, rk) ==
    [k \in 1..Len(rk) |->
        [student_id |-> p, stall_id |-> rk[k].stall_id, rank |-> rk[k].rank.v]]


\* A table whose rows carry no order is a bag of rows.
RECURSIVE InsertRows(_, _)
InsertRows(table, rows) ==
    IF rows = <<>> THEN table
    ELSE InsertRows(table (+) SetToBag({Head(rows)}), Tail(rows))

\* SELECT COUNT(*): the number of rows of the table among the given ones
RowCount(table, hit) == BagCardinality([e \in hit |-> table[e]])

\* one write statement applied to the tables
ApplyOp(db, op) ==
    CASE op.op = "insert_rankings" ->
            [db EXCEPT !.rankings = InsertRows(@, op.rows)]
      [] op.op = "complete_ranking" ->
            [db EXCEPT !.students[op.id] = CompleteRanking(@)]
      [] op.op = "vote" ->
            [db EXCEPT !.stalls[op.id] = UpdateStallVote(@, op.col)]
      [] op.op = "toggle_inside" ->
            [db EXCEPT !.students[op.id].is_inside_event = ~@]
      [] op.op = "insert_check_in_out" ->
            [db EXCEPT !.check_in_outs = Append(@, op.row)]
      [] op.op = "count_scan" ->
            IF op.id \in Volunteers
            THEN [db EXCEPT !.volunteers[op.id].total_scans_performed = @ + 1]
            ELSE db
      [] op.op = "insert_feedback" ->
            [db EXCEPT !.feedbacks = InsertRows(@, <<op.row>>)]
      [] op.op = "count_student_feedback" ->
            [db EXCEPT !.students[op.id].total_feedback_given = @ + 1]
      [] op.op = "count_stall_feedback" ->
            [db EXCEPT !.stalls[op.id].total_feedback_count = @ + 1]
      [] OTHER -> db

RECURSIVE ApplyOps(_, _)
ApplyOps(db, ops) ==
    IF ops = <<>> THEN db ELSE ApplyOps(ApplyOp(db, Head(ops)), Tail(ops))

SetDB(db) ==
    /\ students' = db.students
    /\ stalls' = db.stalls
    /\ volunteers' = db.volunteers
    /\ feedbacks' = db.feedbacks
    /\ rankings' = db.rankings
    /\ check_in_outs' = db.check_in_outs

(***************************************************************************)
(* Request-handling units.                                                 *)
(***************************************************************************)
NoStudent == [found |-> FALSE, is_inside_event |-> FALSE,
              has_completed_ranking |-> FALSE]
\* what a request brought through the router: the route, the name of the
\* credentials it carried, the answers the middleware sent, its calls of
\* next(), and the role in req.user
NoHttp == [route |-> "none", credentials |-> "none", sent |-> <<>>, next |-> 0,
           role |-> "none"]
\* a QR token that was not presented
NoToken == <<>>
BlankReq == [kind |-> "none", pc |-> "idle", user |-> "none",
             rankings |-> <<>>, reg |-> "none", stall_id |-> "none",
             rating |-> Num(0),
             student |-> NoStudent, action |-> "none", inTx |-> FALSE,
             tx |-> <<>>, i |-> 0, status |-> 0, error |-> "none",
             overlaps |-> {}, reviewed |-> FALSE,
             http |-> NoHttp, token |-> NoToken, stall_qr_token |-> Undefined]

\* a unit is free before its first request and after it has answered; a new
\* request is taken by the first free unit
Free(r) ==
    /\ req[r].pc \in {"idle", "done"}
    /\ \A o \in Slots : o < r => req[o].pc \notin {"idle", "done"}

\* errorResponse / successResponse / next(error): the request ends.  The
\* body of a request answered in its first step stays on view with the answer.
Respond(q, code) ==
    [q EXCEPT !.pc = "done", !.status = code,
              !.rankings = IF q.pc = "idle" THEN @ ELSE <<>>,
              !.student = IF q.kind = "feedback" THEN @ ELSE NoStudent,
              !.inTx = FALSE, !.tx = <<>>, !.i = 0]

\* errorResponse(res, message, code); the message is named by the error it
\* reports
ErrorResponse(q, message, code) == [Respond(q, code) EXCEPT !.error = message]

\* unit r takes the request q.  An answer stays on view until the next
\* request arrives: the units that have answered are cleared, and what the
\* working units remember of the request r handled before is dropped
Take(r, q) ==
    req' = [o \in Slots |->
              IF o = r THEN q
              ELSE IF req[o].pc = "done" THEN BlankReq
              ELSE [req[o] EXCEPT !.overlaps = @ \ {r}]]

\* Student.findById
FindStudent(id) ==
    IF id \in Students
    THEN [found |-> TRUE, is_inside_event |-> students[id].is_inside_event,
          has_completed_ranking |-> students[id].has_completed_ranking]
    ELSE NoStudent

\* query(text) inside BEGIN ... COMMIT: the statement belongs to the open
\* transaction and takes effect, with the others, at COMMIT; outside a
\* transaction it takes effect at once
Query(r, op, q) ==
    IF req[r].inTx
    THEN /\ req' = [req EXCEPT ![r] = [q EXCEPT !.tx = Append(@, op)]]
         /\ UNCHANGED tables
    ELSE /\ req' = [req EXCEPT ![r] = q]
         /\ SetDB(ApplyOp(DB, op))

(***************************************************************************)
(* submitSchoolRanking                                                     *)
(***************************************************************************)
N1 == Num(1)
N2 == Num(2)
N3 == Num(3)
Entry(s, k) == [stall_id |-> s, rank |-> k]
StallTriples == {<<"s1", "s2", "s3">>, <<"s2", "s3", "s1">>, <<"s1", "s1", "s2">>,
                 <<"s1", "s2", "s4">>, <<"s1", "s2", "s9">>}
RankVectors == {<<N1, N2, N3>>, <<N3, N1, N2>>, <<Str(1), Str(2), Str(3)>>,
                <<N1, N1, N2>>}
\* request bodies: three entries, and one body with two
RankingBodies ==
    {[k \in 1..3 |-> Entry(st[k], rv[k])] : st \in StallTriples, rv \in RankVectors}
    \cup {<<Entry("s1", N1), Entry("s2", N2)>>}

AlreadySubmitted_Skipped(student) == FALSE

\* if (student.has_completed_ranking)
AlreadySubmitted(student) == student.has_completed_ranking

\* the request arrives; body validation; Student.findById
SubmitSchoolRanking(r, p, rk) ==
    /\ Free(r)
    /\ nreq.ranking < MaxRankingRequests
    /\ nreq' = [nreq EXCEPT !.ranking = @ + 1]
    /\ LET student == FindStudent(p)
           q == [BlankReq EXCEPT !.kind = "ranking", !.user = p, !.rankings = rk,
                                 !.student = student]
       IN  Take(r,
             IF Len(rk) # 3 THEN ErrorResponse(q, "NotThreeRankings", 400)
             ELSE IF ~RankSetOk(rk) THEN ErrorResponse(q, "InvalidRankSet", 400)
             ELSE IF ~StallsDistinct(rk) THEN ErrorResponse(q, "DuplicateStall", 400)
             ELSE IF ~student.found THEN ErrorResponse(q, "StudentNotFound", 404)
             ELSE IF AlreadySubmitted(student)
                  THEN ErrorResponse(q, "AlreadySubmitted", 409)
             ELSE [q EXCEPT !.pc = "stallCheck"])
    /\ UNCHANGED <<tables, raced, now, regen>>

StallsMissing_Never(stallsToRank) == FALSE

\* if (stallsToRank.length !== 3)
StallsMissing(stallsToRank) == Cardinality(stallsToRank) # 3

InvalidStalls_None(stallsToRank, school_id) == {}

\* stallsToRank.filter(s => s.school_id !== student.school_id)
InvalidStalls(stallsToRank, school_id) ==
    {s \in stallsToRank : StallSchool(s) # school_id}

\* stallCheckQuery: the rows of the three stall ids, and their schools
RkStallCheck(r) ==
    /\ req[r].kind = "ranking"
    /\ req[r].pc = "stallCheck"
    /\ LET q == req[r]
           stallsToRank == {q.rankings[k].stall_id : k \in 1..3} \cap Stalls
           invalidStalls == InvalidStalls(stallsToRank, StudentSchool(q.user))
       IN  req' = [req EXCEPT ![r] =
             IF StallsMissing(stallsToRank) THEN ErrorResponse(q, "StallNotFound", 404)
             ELSE IF invalidStalls # {} THEN ErrorResponse(q, "CrossSchoolStall", 403)
             ELSE [q EXCEPT !.pc = "begin"]]
    /\ UNCHANGED <<tables, nreq, raced, now, regen>>

\* the statements that follow are not in a transaction
RkBegin_NoTransaction(r) ==
    /\ req[r].kind = "ranking"
    /\ req[r].pc = "begin"
    /\ req' = [req EXCEPT ![r].pc = "bulkCreate"]
    /\ UNCHANGED <<tables, nreq, raced, now, regen>>

\* await query('BEGIN')
RkBegin(r) ==
    /\ req[r].kind = "ranking"
    /\ req[r].pc = "begin"
    /\ req' = [req EXCEPT ![r].pc = "bulkCreate", ![r].inTx = TRUE]
    /\ UNCHANGED <<tables, nreq, raced, now, regen>>

\* await Ranking.bulkCreate(rankingData, query)
RkBulkCreate(r) ==
    /\ req[r].kind = "ranking"
    /\ req[r].pc = "bulkCreate"
    /\ Query(r, [op |-> "insert_rankings",
                 rows |-> RankingRows(req[r].user, req[r].rankings)],
             [req[r] EXCEPT !.pc = "updateStudent"])
    /\ UNCHANGED <<nreq, raced, now, regen>>

\* UPDATE students SET has_completed_ranking = true ...
RkUpdateStudent(r) ==
    /\ req[r].kind = "ranking"
    /\ req[r].pc = "updateStudent"
    /\ Query(r, [op |-> "complete_ranking", id |-> req[r].user],
             [req[r] EXCEPT !.pc = "updateStall", !.i = 1])
    /\ UNCHANGED <<nreq, raced, now, regen>>

\* one turn of: for (const ranking of rankings) { UPDATE stalls ... }
RkUpdateStall(r) ==
    /\ req[r].kind = "ranking"
    /\ req[r].pc = "updateStall"
    /\ LET ranking == req[r].rankings[req[r].i]
       IN  Query(r, [op |-> "vote", id |-> ranking.stall_id,
                     col |-> ColumnName(ranking.rank)],
                 IF req[r].i = 3 THEN [req[r] EXCEPT !.pc = "commit", !.i = 0]
                 ELSE [req[r] EXCEPT !.i = @ + 1])
    /\ UNCHANGED <<nreq, raced, now, regen>>

\* await query('COMMIT')
RkCommit(r) ==
    /\ req[r].kind = "ranking"
    /\ req[r].pc = "commit"
    /\ SetDB(ApplyOps(DB, req[r].tx))
    /\ req' = [req EXCEPT ![r].pc = "respond", ![r].inTx = FALSE, ![r].tx = <<>>]
    /\ UNCHANGED <<nreq, raced, now, regen>>

\* rankedStallsQuery, successResponse 201
RkRespond(r) ==
    /\ req[r].kind = "ranking"
    /\ req[r].pc = "respond"
    /\ req' = [req EXCEPT ![r] = Respond(@, 201)]
    /\ UNCHANGED <<tables, nreq, raced, now, regen>>

\* a statement of the try block rejects (time-out, connection loss)
RkThrow(r) ==
    /\ req[r].kind = "ranking"
    /\ req[r].pc \in {"begin", "bulkCreate", "updateStudent", "updateStall",
                      "commit", "respond"}
    /\ req' = [req EXCEPT ![r].pc = "rollback"]
    /\ UNCHANGED <<tables, nreq, raced, now, regen>>

\* catch (error) { await query('ROLLBACK'); throw error; }
RkRollback(r) ==
    /\ req[r].kind = "ranking"
    /\ req[r].pc = "rollback"
    /\ req' = [req EXCEPT ![r] = Respond(@, 500)]
    /\ UNCHANGED <<tables, nreq, raced, now, regen>>

Init ==
    /\ students = [p \in Students |-> StudentRow0]
    /\ stalls = [s \in Stalls |-> StallRow0]
    /\ volunteers = [v \in Volunteers |-> VolunteerRow0]
    /\ feedbacks = EmptyBag
    /\ rankings = EmptyBag
    /\ check_in_outs = <<>>
    /\ req = [r \in Slots |-> BlankReq]
    /\ nreq = [ranking |-> 0, scan |-> 0, feedback |-> 0]
    /\ raced = [p \in Students |-> FALSE]
    /\ now = 0
    /\ qr_code_token = [x \in Students \cup Stalls |-> OldToken(x)]
    /\ cache = {OldToken(x) : x \in Students \cup Stalls}
    /\ script = ScriptNotRun

(***************************************************************************)
(* Scheduling.  Every step is one await of a handler.  A step that reads   *)
(* and writes nothing but its own request (a look-up in the static         *)
(* directory, a statement queued in its open transaction, its rollback,    *)
(* its answer) commutes with the steps of every other request, so the      *)
(* model runs such a step before it schedules another request: the tables  *)
(* reached and the answers given are the same as with every interleaving.  *)
(***************************************************************************)
OwnStepPcs == {"stallCheck", "begin", "bulkCreate", "updateStudent", "updateStall",
               "respond", "rollback", "findVolunteer", "findStall"}
Scheduled(r) == \A o \in Slots : o # r => req[o].pc \notin OwnStepPcs

(***************************************************************************)
(* scanStudentQR (volunteer scans a student's QR code)                     *)
(***************************************************************************)
\* scans of student p that have not answered yet
ScansInFlight(p) ==
    {r \in Slots : req[r].kind = "scan" /\ req[r].pc # "done" /\ req[r].reg = p}

\* the request arrives; the QR token names reg;
\* Student.findByRegistrationNo(decoded.registration_no)
\* request is what the router hands to the controller
ScanStudentQRRequest(r, request, reg) ==
    /\ Free(r)
    /\ nreq.scan < MaxScans
    /\ nreq' = [nreq EXCEPT !.scan = @ + 1]
    /\ LET others == ScansInFlight(reg)
           unflipped == {o \in others : req[o].pc \in {"findVolunteer", "process"}}
           q == [request EXCEPT !.kind = "scan", !.reg = reg,
                                 !.student = FindStudent(reg),
                                 !.pc = "findVolunteer", !.overlaps = unflipped]
       IN  /\ Take(r, q)
           /\ raced' = IF reg \in Students /\ others # {}
                        THEN [raced EXCEPT ![reg] = TRUE] ELSE raced
    /\ UNCHANGED <<tables, now, regen>>

\* the scan of an authenticated requester v whose QR token names reg
ScanStudentQR(r, v, reg) ==
    ScanStudentQRRequest(r, [BlankReq EXCEPT !.user = v], reg)

Inactive_Never(id) == FALSE

\* if (volunteer && !volunteer.is_active): a requester with no volunteers
\* row is not refused
Inactive(id) == id \in Volunteers /\ ~VolunteerActive(id)

\* Volunteer.findById(req.user.id); an inactive volunteer is refused
ScFindVolunteer(r) ==
    /\ req[r].kind = "scan"
    /\ req[r].pc = "findVolunteer"
    /\ req' = [req EXCEPT ![r] =
           IF Inactive(@.user) THEN ErrorResponse(@, "Inactive", 403)
           ELSE [@ EXCEPT !.pc = "process"]]
    /\ UNCHANGED <<tables, nreq, raced, now, regen>>

Action_AlwaysEntry(student) == "ENTRY"

\* the duration column: NULL, or one number
NoDuration == {}

\* the timestamps of the ENTRY records of student id
EntryTimestamps(records, id) ==
    {records[k].timestamp : k \in {j \in 1..Len(records) :
        records[j].student_id = id /\ records[j].scan_type = "ENTRY"}}

MostRecentEntry_First(records, id) ==
    {t \in EntryTimestamps(records, id) : \A u \in EntryTimestamps(records, id) : t <= u}

\* timestamp of the most recent ENTRY record (ORDER BY timestamp DESC LIMIT 1)
MostRecentEntry(records, id) ==
    {t \in EntryTimestamps(records, id) : \A u \in EntryTimestamps(records, id) : t >= u}

\* EXIT: duration = now - timestamp of the most recent ENTRY record; an
\* ENTRY record has none
Duration(records, id, action, at) ==
    IF action = "EXIT" THEN {at - t : t \in MostRecentEntry(records, id)}
    ELSE NoDuration

\* const action = student.is_inside_event ? 'EXIT' : 'ENTRY'
Action(student) == IF student.is_inside_event THEN "EXIT" ELSE "ENTRY"

\* Student.processCheckInOut(student.id): the flag is flipped and the
\* attendance record is written as one atomic unit
ProcessCheckInOut(db, id, row) ==
    ApplyOps(db, <<[op |-> "toggle_inside", id |-> id],
                   [op |-> "insert_check_in_out", row |-> row]>>)

\* the direction is taken from the row read when the request arrived; then
\* Student.processCheckInOut
ScProcess(r) ==
    /\ req[r].kind = "scan"
    /\ req[r].pc = "process"
    /\ IF ~req[r].student.found
       THEN \* student is null: student.is_inside_event throws
            /\ req' = [req EXCEPT ![r] = Respond(@, 500)]
            /\ UNCHANGED tables
       ELSE LET action == Action(req[r].student)
                row == [student_id |-> req[r].reg, volunteer_id |-> req[r].user,
                        scan_type |-> action, timestamp |-> now,
                        duration |-> Duration(check_in_outs, req[r].reg, action, now)]
            IN  /\ SetDB(ProcessCheckInOut(DB, req[r].reg, row))
                /\ req' = [req EXCEPT ![r].pc = "countScan", ![r].action = action]
    /\ UNCHANGED <<nreq, raced, now, regen>>

\* UPDATE volunteers SET total_scans_performed = total_scans_performed + 1
ScCountScan(r) ==
    /\ req[r].kind = "scan"
    /\ req[r].pc = "countScan"
    /\ Query(r, [op |-> "count_scan", id |-> req[r].user], Respond(req[r], 200))
    /\ UNCHANGED <<nreq, raced, now, regen>>

(***************************************************************************)
(* submitFeedback                                                          *)
(***************************************************************************)
FEEDBACK_LIMIT == 200
\* "" is a body without stall_id, "s9" the id of no stall; rating 0 is also a
\* body without rating
FeedbackStallIds == {"", "s1", "s9"}
Ratings == {Num(0), Num(3), Num(6)}

IsFeedbackOf(p, s, f) == f.student_id = p /\ f.stall_id = s
\* Feedback.findByStudentAndStall
FindByStudentAndStall(p, s) ==
    {f \in BagToSet(feedbacks) : IsFeedbackOf(p, s, f)}
\* Feedback.countByStudent
CountByStudent(p) == RowCount(feedbacks, {f \in BagToSet(feedbacks) : f.student_id = p})

NotCheckedIn_Skipped(student) == FALSE

NotCheckedIn_Inverted(student) == student.is_inside_event

\* if (!student.is_inside_event)
NotCheckedIn(student) == ~student.is_inside_event

UniqueViolation_None(p, s) == FALSE

\* the feedbacks table holds one row per (student_id, stall_id): an insert of
\* a second one is refused
UniqueViolation(p, s) == FindByStudentAndStall(p, s) # {}

OutOfRange_Never(rating) == FALSE

\* if (rating < 1 || rating > 5)
OutOfRange(rating) == JsLess(rating, 1) \/ JsGreater(rating, 5)

\* the feedbacks table takes a rating that is an integer from 1 to 5; an
\* insert of anything else is refused
CheckViolation(rating) == rating.t = "word" \/ rating.v \notin 1..5

ExistingFeedback_None(p, s) == FALSE

ExistingFeedback_AnyStall(p, s) == \E f \in BagToSet(feedbacks) : f.student_id = p

\* const existingFeedback = await Feedback.findByStudentAndStall(...)
ExistingFeedback(p, s) == FindByStudentAndStall(p, s) # {}

\* the request arrives; body validation; Student.findById; checked in?
SubmitFeedback(r, p, s, rating) ==
    /\ Free(r)
    /\ nreq.feedback < MaxFeedbacks
    /\ nreq' = [nreq EXCEPT !.feedback = @ + 1]
    /\ LET student == FindStudent(p)
           q == [BlankReq EXCEPT !.kind = "feedback", !.user = p, !.stall_id = s,
                                 !.rating = rating, !.student = student,
                                 !.reviewed = FindByStudentAndStall(p, s) # {}]
       IN  Take(r,
             IF s = "" \/ Falsy(rating) THEN ErrorResponse(q, "Required", 400)
             ELSE IF OutOfRange(rating) THEN ErrorResponse(q, "OutOfRange", 400)
             ELSE IF ~student.found THEN ErrorResponse(q, "StudentNotFound", 404)
             ELSE IF NotCheckedIn(student) THEN ErrorResponse(q, "NotCheckedIn", 403)
             ELSE [q EXCEPT !.pc = "countByStudent"])
    /\ UNCHANGED <<tables, raced, now, regen>>

\* Feedback.countByStudent: the limit of 200
FbCountByStudent(r) ==
    /\ req[r].kind = "feedback"
    /\ req[r].pc = "countByStudent"
    /\ LET feedbackCount == CountByStudent(req[r].user)
       IN  req' = [req EXCEPT ![r] =
             IF feedbackCount >= FEEDBACK_LIMIT
             THEN ErrorResponse(@, "QuotaExceeded", 403)
             ELSE [@ EXCEPT !.pc = "findStall"]]
    /\ UNCHANGED <<tables, nreq, raced, now, regen>>

\* Stall.findById
FbFindStall(r) ==
    /\ req[r].kind = "feedback"
    /\ req[r].pc = "findStall"
    /\ req' = [req EXCEPT ![r] =
           IF @.stall_id \notin Stalls THEN ErrorResponse(@, "StallNotFound", 404)
           ELSE [@ EXCEPT !.pc = "findExisting"]]
    /\ UNCHANGED <<tables, nreq, raced, now, regen>>

\* Feedback.findByStudentAndStall: already reviewed?
FbFindExisting(r) ==
    /\ req[r].kind = "feedback"
    /\ req[r].pc = "findExisting"
    /\ req' = [req EXCEPT ![r] =
           IF ExistingFeedback(@.user, @.stall_id)
           THEN ErrorResponse(@, "AlreadyReviewed", 409)
           ELSE [@ EXCEPT !.pc = "create"]]
    /\ UNCHANGED <<tables, nreq, raced, now, regen>>

\* the record inserted first and the pair looked up afterwards
FbCreate_ThenCheck(r) ==
    /\ req[r].kind = "feedback"
    /\ req[r].pc = "create"
    /\ IF CheckViolation(req[r].rating)
       THEN /\ req' = [req EXCEPT ![r] = ErrorResponse(@, "check_violation", 500)]
            /\ UNCHANGED tables
       ELSE Query(r, [op |-> "insert_feedback",
                      row |-> [student_id |-> req[r].user,
                               stall_id |-> req[r].stall_id,
                               rating |-> req[r].rating.v]],
                  IF ExistingFeedback(req[r].user, req[r].stall_id)
                  THEN ErrorResponse(req[r], "AlreadyReviewed", 409)
                  ELSE [req[r] EXCEPT !.pc = "incrementStudent"])
    /\ UNCHANGED <<nreq, raced, now, regen>>

\* Feedback.create
FbCreate(r) ==
    /\ req[r].kind = "feedback"
    /\ req[r].pc = "create"
    /\ IF CheckViolation(req[r].rating)
       THEN /\ req' = [req EXCEPT ![r] = ErrorResponse(@, "check_violation", 500)]
            /\ UNCHANGED tables
       ELSE IF UniqueViolation(req[r].user, req[r].stall_id)
       THEN /\ req' = [req EXCEPT ![r] = ErrorResponse(@, "unique_violation", 500)]
            /\ UNCHANGED tables
       ELSE Query(r, [op |-> "insert_feedback",
                      row |-> [student_id |-> req[r].user,
                               stall_id |-> req[r].stall_id,
                               rating |-> req[r].rating.v]],
                  [req[r] EXCEPT !.pc = "incrementStudent"])
    /\ UNCHANGED <<nreq, raced, now, regen>>

\* Student.incrementFeedbackCount
FbIncrementStudent(r) ==
    /\ req[r].kind = "feedback"
    /\ req[r].pc = "incrementStudent"
    /\ Query(r, [op |-> "count_student_feedback", id |-> req[r].user],
             [req[r] EXCEPT !.pc = "incrementStall"])
    /\ UNCHANGED <<nreq, raced, now, regen>>

\* UPDATE stalls SET total_feedback_count = total_feedback_count + 1;
\* successResponse 201
FbIncrementStall(r) ==
    /\ req[r].kind = "feedback"
    /\ req[r].pc = "incrementStall"
    /\ Query(r, [op |-> "count_stall_feedback", id |-> req[r].stall_id],
             Respond(req[r], 201))
    /\ UNCHANGED <<nreq, raced, now, regen>>

\* a write of the handler rejects (time-out, connection loss): next(error)
FbThrow(r) ==
    /\ req[r].kind = "feedback"
    /\ req[r].pc \in {"create", "incrementStudent", "incrementStall"}
    /\ req' = [req EXCEPT ![r] = ErrorResponse(@, "thrown", 500)]
    /\ UNCHANGED <<tables, nreq, raced, now, regen>>

NextScan ==
    \E r \in Slots :
      /\ Scheduled(r)
      /\
        \/ \E v \in Volunteers, reg \in UserIds : ScanStudentQR(r, v, reg)
        \/ ScFindVolunteer(r)
        \/ ScProcess(r)
        \/ ScCountScan(r)

SpecScan == Init /\ [][NextScan]_vars

\* The clock advances.  It is read only where a scan is processed, so its
\* advance is taken where a scan is about to be processed.
Tick ==
    /\ now < MaxTime
    /\ \E r \in Slots : req[r].pc = "process"
    /\ now' = now + 1
    /\ UNCHANGED <<tables, req, nreq, raced, regen>>

\* scans by the active volunteer while time passes
NextDuration ==
    \/ Tick
    \/ \E r \in Slots :
          /\ Scheduled(r)
          /\
            \/ \E reg \in Students :
                  nreq.scan < MaxTimedScans /\ ScanStudentQR(r, "v1", reg)
            \/ ScFindVolunteer(r)
            \/ ScProcess(r)
            \/ ScCountScan(r)

SpecDuration == Init /\ [][NextDuration]_vars

(***************************************************************************)
(* scripts/regenerate-qr-tokens.js                                         *)
(***************************************************************************)
\* the order in which a SELECT without ORDER BY returned the rows
StudentOrder == <<"p1", "p2">>
StallOrder == <<"s1", "s2", "s3", "s4">>

\* student.qr_code_token, stall.qr_code_token: the property of a row object
\* as the SELECT list made it
Property(row, name) == IF name \in DOMAIN row THEN row[name] ELSE Undefined

\* SELECT id, full_name, email, registration_no FROM students
RgSelectStudents ==
    /\ script.pc = "idle"
    /\ script' = [script EXCEPT
          !.pc = "updateStudent", !.i = 1,
          !.rows = [k \in 1..Len(StudentOrder) |->
                       [id |-> StudentOrder[k], registration_no |-> StudentOrder[k]]]]
    /\ UNCHANGED <<tables, req, nreq, raced, now, qr_code_token, cache>>

\* generateStudentQRToken(student); UPDATE students SET qr_code_token = $1
RgUpdateStudent ==
    /\ script.pc = "updateStudent"
    /\ \E n \in Nonces :
          LET student == script.rows[script.i]
              newToken == GenerateStudentQRToken(student, n)
          IN  /\ qr_code_token' = [qr_code_token EXCEPT ![student.id] = newToken]
              /\ script' = [script EXCEPT
                    !.pc = "clearOld", !.newToken = newToken,
                    !.replaced = @ \cup {qr_code_token[student.id]},
                    !.generated = @ \cup {newToken}]
    /\ UNCHANGED <<tables, req, nreq, raced, now, cache>>

\* if (student.qr_code_token) await QRCodeService.clearQRCache(student.qr_code_token)
RgClearOld ==
    /\ script.pc = "clearOld"
    /\ LET old == Property(script.rows[script.i], "qr_code_token")
       IN  cache' = IF old # Undefined THEN cache \ {old} ELSE cache
    /\ script' = [script EXCEPT !.pc = "clearNew"]
    /\ UNCHANGED <<tables, req, nreq, raced, now, qr_code_token>>

\* await QRCodeService.clearQRCache(newToken); the next student, or
\* SELECT id, stall_number, stall_name, school_id FROM stalls
RgClearNew ==
    /\ script.pc = "clearNew"
    /\ cache' = cache \ {script.newToken}
    /\ script' =
          IF script.i < Len(script.rows)
          THEN [script EXCEPT !.pc = "updateStudent", !.i = @ + 1]
          ELSE [script EXCEPT
                  !.pc = "updateStall", !.i = 1,
                  !.rows = [k \in 1..Len(StallOrder) |->
                               [id |-> StallOrder[k], stall_number |-> StallOrder[k]]]]
    /\ UNCHANGED <<tables, req, nreq, raced, now, qr_code_token>>

\* generateStallQRToken(stall); UPDATE stalls SET qr_code_token = $1
RgUpdateStall ==
    /\ script.pc = "updateStall"
    /\ \E n \in Nonces :
          LET stall == script.rows[script.i]
              newToken == GenerateStallQRToken(stall, n)
          IN  /\ qr_code_token' = [qr_code_token EXCEPT ![stall.id] = newToken]
              /\ script' = [script EXCEPT
                    !.pc = "clearStall", !.newToken = newToken,
                    !.replaced = @ \cup {qr_code_token[stall.id]},
                    !.generated = @ \cup {newToken}]
    /\ UNCHANGED <<tables, req, nreq, raced, now, cache>>

\* await QRCodeService.clearQRCache(newToken); the next stall, or the
\* report and "All tokens regenerated successfully"
RgClearStall ==
    /\ script.pc = "clearStall"
    /\ cache' = cache \ {script.newToken}
    /\ script' =
          IF script.i < Len(script.rows)
          THEN [script EXCEPT !.pc = "updateStall", !.i = @ + 1]
          ELSE [script EXCEPT !.pc = "done"]
    /\ UNCHANGED <<tables, req, nreq, raced, now, qr_code_token>>

\* a statement rejects: catch (error) { console.error(...) }
RgThrow ==
    /\ script.pc \in {"updateStudent", "clearOld", "clearNew", "updateStall",
                      "clearStall"}
    /\ script' = [script EXCEPT !.pc = "failed"]
    /\ UNCHANGED <<tables, req, nreq, raced, now, qr_code_token, cache>>

NextRegenerate ==
    \/ RgSelectStudents
    \/ RgUpdateStudent
    \/ RgClearOld
    \/ RgClearNew
    \/ RgUpdateStall
    \/ RgClearStall
    \/ RgThrow

SpecRegenerate == Init /\ [][NextRegenerate]_vars

\* The steps of a scan write nothing a feedback request reads but the flag,
\* flipped in one step, and read nothing a feedback request writes: among
\* feedback requests a scan may be taken as a whole (scans racing with scans
\* are the subject of SpecScan).  No handler reads total_feedback_given or
\* total_feedback_count, so the two counter updates of a feedback request
\* (or the failure that replaces them) commute with every other step too.
VisitStepPcs == OwnStepPcs \cup {"process", "countScan",
                                 "incrementStudent", "incrementStall"}
ScheduledVisit(r) == \A o \in Slots : o # r => req[o].pc \notin VisitStepPcs

\* visits: the active volunteer scans participants in and out, and the
\* participants give feedback
NextFeedback ==
    \E r \in Slots :
      /\ ScheduledVisit(r)
      /\
        \/ \E reg \in Students :
              nreq.scan < MaxVisitScans /\ ScanStudentQR(r, "v1", reg)
        \/ ScFindVolunteer(r)
        \/ ScProcess(r)
        \/ ScCountScan(r)
        \/ \E p \in UserIds, s \in FeedbackStallIds, rating \in Ratings :
              SubmitFeedback(r, p, s, rating)
        \/ FbCountByStudent(r)
        \/ FbFindStall(r)
        \/ FbFindExisting(r)
        \/ FbCreate(r)
        \/ FbIncrementStudent(r)
        \/ FbIncrementStall(r)
        \/ FbThrow(r)

SpecFeedback == Init /\ [][NextFeedback]_vars

NextRanking ==
    \E r \in Slots :
      /\ Scheduled(r)
      /\
        \/ \E p \in UserIds, rk \in RankingBodies : SubmitSchoolRanking(r, p, rk)
        \/ RkStallCheck(r)
        \/ RkBegin(r)
        \/ RkBulkCreate(r)
        \/ RkUpdateStudent(r)
        \/ RkUpdateStall(r)
        \/ RkCommit(r)
        \/ RkRespond(r)
        \/ RkThrow(r)
        \/ RkRollback(r)

SpecRanking == Init /\ [][NextRanking]_vars

\* one participant's day: p1 is scanned in and out by the active volunteer,
\* gives feedback and submits a ranking, in any order and overlapping
NextParticipant ==
    \E r \in Slots :
      /\ ScheduledVisit(r)
      /\
        \/ nreq.scan < MaxVisitScans /\ ScanStudentQR(r, "v1", "p1")
        \/ ScFindVolunteer(r)
        \/ ScProcess(r)
        \/ ScCountScan(r)
        \/ SubmitFeedback(r, "p1", "s1", Num(3))
        \/ FbCountByStudent(r)
        \/ FbFindStall(r)
        \/ FbFindExisting(r)
        \/ FbCreate(r)
        \/ FbIncrementStudent(r)
        \/ FbIncrementStall(r)
        \/ FbThrow(r)
        \/ SubmitSchoolRanking(r, "p1",
                <<Entry("s1", N1), Entry("s2", N2), Entry("s3", N3)>>)
        \/ RkStallCheck(r)
        \/ RkBegin(r)
        \/ RkBulkCreate(r)
        \/ RkUpdateStudent(r)
        \/ RkUpdateStall(r)
        \/ RkCommit(r)
        \/ RkRespond(r)
        \/ RkThrow(r)
        \/ RkRollback(r)

SpecParticipant == Init /\ [][NextParticipant]_vars

\* Late in the event: both participants were scanned in by the active
\* volunteer, and p1 has given feedback to FEEDBACK_LIMIT - 1 stalls (stalls
\* that no request of the run names: their rows are left out of stalls).
EarlierFeedbacks ==
    {[student_id |-> "p1", stall_id |-> ToString(k), rating |-> 3] :
        k \in 1..(FEEDBACK_LIMIT - 1)}
InitLate ==
    /\ students = [p \in Students |->
          [StudentRow0 EXCEPT !.is_inside_event = TRUE,
                              !.total_feedback_given =
                                  IF p = "p1" THEN FEEDBACK_LIMIT - 1 ELSE 0]]
    /\ stalls = [s \in Stalls |-> StallRow0]
    /\ volunteers = [v \in Volunteers |->
          [total_scans_performed |-> IF v = "v1" THEN Cardinality(Students) ELSE 0]]
    /\ feedbacks = SetToBag(EarlierFeedbacks)
    /\ rankings = EmptyBag
    /\ check_in_outs = <<[student_id |-> "p1", volunteer_id |-> "v1",
                          scan_type |-> "ENTRY", timestamp |-> 0,
                          duration |-> NoDuration],
                         [student_id |-> "p2", volunteer_id |-> "v1",
                          scan_type |-> "ENTRY", timestamp |-> 0,
                          duration |-> NoDuration]>>
    /\ req = [r \in Slots |-> BlankReq]
    /\ nreq = [ranking |-> 0, scan |-> 0, feedback |-> 0]
    /\ raced = [p \in Students |-> FALSE]
    /\ now = 0
    /\ qr_code_token = [x \in Students \cup Stalls |-> OldToken(x)]
    /\ cache = {OldToken(x) : x \in Students \cup Stalls}
    /\ script = ScriptNotRun

\* the feedback requests of the participants who are inside
LateStallIds == {"s1", "s2"}
LateRatings == {Num(3), Num(6), Word}
NextLate ==
    \E r \in Slots :
      /\ ScheduledVisit(r)
      /\
        \/ \E p \in Students, s \in LateStallIds, rating \in LateRatings :
              SubmitFeedback(r, p, s, rating)
        \/ FbCountByStudent(r)
        \/ FbFindStall(r)
        \/ FbFindExisting(r)
        \/ FbCreate(r)
        \/ FbIncrementStudent(r)
        \/ FbIncrementStall(r)
        \/ FbThrow(r)

SpecLate == InitLate /\ [][NextLate]_vars

Next == NextScan \/ NextFeedback \/ NextRanking

Spec == Init /\ [][Next]_vars

(***************************************************************************)
(* Properties of the attendance toggle.                                    *)
(***************************************************************************)
IsRecordOf(p, c) == c.student_id = p
RecordsOf(p) == SelectSeq(check_in_outs, LAMBDA c : IsRecordOf(p, c))
Odd(n) == n % 2 = 1

\* C2: the directions recorded for one participant strictly alternate in
\* commit order, however the scans interleave.
C2_DirectionsAlternate ==
    \A p \in Students :
        \A k \in 1..(Len(RecordsOf(p)) - 1) :
            RecordsOf(p)[k].scan_type # RecordsOf(p)[k + 1].scan_type

\* two scans of the same participant, the second arriving before the first
\* has flipped the flag; both answered, and theirs are the only two records of
\* that participant
ConcurrentPair(r1, r2) ==
    /\ r1 # r2
    /\ req[r1].kind = "scan" /\ req[r2].kind = "scan"
    /\ req[r1].reg = req[r2].reg
    /\ req[r1].status = 200 /\ req[r2].status = 200
    /\ r1 \in req[r2].overlaps
    /\ Len(RecordsOf(req[r1].reg)) = 2

\* C3: two concurrent scans of one participant who starts outside yield
\* exactly one ENTRY and leave is_inside_event true.
C3_ConcurrentPairOneEntry ==
    \A r1, r2 \in Slots :
        ConcurrentPair(r1, r2) =>
            /\ Cardinality({r \in {r1, r2} : req[r].action = "ENTRY"}) = 1
            /\ students[req[r1].reg].is_inside_event

\* C8: as long as the scans of a participant follow one another (none
\* arrives while another is in flight), the k-th scan is recorded as ENTRY
\* for odd k and EXIT for even k, and the flag is true exactly after an odd
\* number of scans.
C8_SequentialScansAlternate ==
    \A p \in Students :
        ~raced[p] =>
            /\ \A k \in 1..Len(RecordsOf(p)) :
                  RecordsOf(p)[k].scan_type = IF Odd(k) THEN "ENTRY" ELSE "EXIT"
            /\ students[p].is_inside_event <=> Odd(Len(RecordsOf(p)))

\* three scans of one participant, one after the other
C8_Witness ==
    ~raced["p1"] /\ Len(RecordsOf("p1")) = 3 /\ ScansInFlight("p1") = {}

(***************************************************************************)
(* Properties of the feedback submission.                                  *)
(***************************************************************************)
FeedbacksOf(p) == RowCount(feedbacks, {f \in BagToSet(feedbacks) : f.student_id = p})
FeedbacksFor(s) == RowCount(feedbacks, {f \in BagToSet(feedbacks) : f.stall_id = s})
FeedbacksOfFor(p, s) == RowCount(feedbacks, {f \in BagToSet(feedbacks) : IsFeedbackOf(p, s, f)})

\* C6: there is at most one Feedback record per (participant, stall) pair in
\* every reachable state, also when two requests for the same pair race.
C6_OneFeedbackPerPair ==
    \A p \in Students, s \in Stalls : FeedbacksOfFor(p, s) <= 1

\* the second of two racing requests for one pair was refused at the insert
C6_Witness ==
    \E r \in Slots :
        /\ req[r].kind = "feedback"
        /\ req[r].error = "unique_violation"
        /\ FeedbacksOfFor(req[r].user, req[r].stall_id) = 1

\* C7: in every observable state a participant's feedback counter is the
\* number of the participant's Feedback records, and a stall's
\* total_feedback_count is the number of Feedback records for the stall.
C7_CountersMatchRecords ==
    /\ \A p \in Students :
          students[p].total_feedback_given = FeedbacksOf(p)
    /\ \A s \in Stalls :
          stalls[s].total_feedback_count = FeedbacksFor(s)

\* a submitFeedback with a rating from 1 to 5 that has answered, by a
\* participant who had a Feedback record for the stall when the request
\* arrived and was outside the event
RepeatAfterExit(r) ==
    /\ req[r].kind = "feedback"
    /\ req[r].pc = "done"
    /\ req[r].rating.t = "number" /\ req[r].rating.v \in 1..5
    /\ req[r].reviewed
    /\ req[r].student.found
    /\ ~req[r].student.is_inside_event

\* C9 as stated: after scan in, feedback for S, scan out, a further
\* submitFeedback by P for S fails with AlreadyReviewed (409).
C9_RepeatIsAlreadyReviewed ==
    \A r \in Slots : RepeatAfterExit(r) => req[r].status = 409

\* C9 as the code has it: the further submitFeedback is refused with
\* NotCheckedIn (403), the check that comes first, and adds no record.
C9_RepeatIsNotCheckedIn ==
    \A r \in Slots :
        RepeatAfterExit(r) =>
            /\ req[r].status = 403
            /\ FeedbacksOfFor(req[r].user, req[r].stall_id) = 1

\* P was scanned in, gave feedback, was scanned out and asked again
C9_Witness ==
    \E r \in Slots :
        /\ RepeatAfterExit(r)
        /\ Len(RecordsOf(req[r].user)) = 2
        /\ RecordsOf(req[r].user)[1].scan_type = "ENTRY"
        /\ RecordsOf(req[r].user)[2].scan_type = "EXIT"
        /\ ~students[req[r].user].is_inside_event

(***************************************************************************)
(* Properties of the ranking submission.                                   *)
(***************************************************************************)
RowsOf(p) == RowCount(rankings, {row \in BagToSet(rankings) : row.student_id = p})
RowsFor(s) == RowCount(rankings, {row \in BagToSet(rankings) : row.stall_id = s})
Votes(s) == stalls[s].rank_1_votes + stalls[s].rank_2_votes + stalls[s].rank_3_votes
VotesN(s, n) ==
    IF n = 1 THEN stalls[s].rank_1_votes
    ELSE IF n = 2 THEN stalls[s].rank_2_votes
    ELSE stalls[s].rank_3_votes

\* C1: of the submitSchoolRanking requests one participant makes, however
\* they interleave, at most one commits: the participant never has more than
\* three ranking rows, and no two of the participant's requests both answer 201.
C1_AtMostOneCommit ==
    /\ \A p \in Students : RowsOf(p) \in {0, 3}
    /\ \A r1, r2 \in Slots :
          (r1 # r2 /\ req[r1].kind = "ranking" /\ req[r2].kind = "ranking"
             /\ req[r1].user = req[r2].user /\ req[r1].status = 201)
          => req[r2].status # 201

\* C4: a ranking submission is all or nothing in every state another request
\* can observe, whatever step fails: a participant's ranking rows come in
\* threes, has_completed_ranking is true exactly when the rows are there, and
\* every stall has exactly one vote counted per ranking row that names it.
C4_AllOrNothing ==
    /\ \A p \in Students :
          /\ RowsOf(p) % 3 = 0
          /\ students[p].has_completed_ranking <=> RowsOf(p) > 0
    /\ \A s \in Stalls : Votes(s) = RowsFor(s)

\* a submission fails with part of its writes issued, and nothing of it is in
\* the tables
C4_Witness ==
    \E r \in Slots :
        /\ req[r].pc = "rollback"
        /\ Len(req[r].tx) = 4
        /\ rankings = EmptyBag
        /\ \A s \in Stalls : Votes(s) = 0

\* C5: every stall's weighted_score is 5*rank_1_votes + 3*rank_2_votes +
\* 1*rank_3_votes in every committed state.
C5_WeightedScore ==
    \A s \in Stalls :
        stalls[s].weighted_score =
            5 * stalls[s].rank_1_votes + 3 * stalls[s].rank_2_votes
            + 1 * stalls[s].rank_3_votes

\* the commit of request r's submission
Commits(r) == req[r].kind = "ranking" /\ req[r].pc = "commit" /\ req'[r].pc = "respond"

\* C10: the commit of an accepted submission adds exactly 1 to rank_N_votes of
\* the stall given rank N, changes no other vote counter, and sets the
\* participant's has_completed_ranking.
C10_VoteGoesToItsRank ==
    [][\A r \in Slots : Commits(r) =>
          /\ students'[req[r].user].has_completed_ranking
          /\ \A s \in Stalls, n \in 1..3 :
                VotesN(s, n)' = VotesN(s, n) +
                    (IF \E k \in 1..3 : /\ req[r].rankings[k].stall_id = s
                                         /\ req[r].rankings[k].rank.v = n
                     THEN 1 ELSE 0)]_vars

\* a submission as the specification wants it: three entries, the ranks 1, 2
\* and 3 once each, three different stalls
WellFormed(rk) ==
    /\ Len(rk) = 3
    /\ \A n \in 1..3 : \E k \in 1..3 : rk[k].rank.v = n
    /\ \A j, k \in 1..3 : j # k => rk[j].stall_id # rk[k].stall_id

\* unit r takes a submitSchoolRanking request in this step
RankingArrives(r) == Free(r) /\ nreq'.ranking = nreq.ranking + 1

\* the request unit r takes is by a participant whose ranking is committed
SecondCall(r) ==
    /\ RankingArrives(r)
    /\ req'[r].user \in Students
    /\ students[req'[r].user].has_completed_ranking

\* C11: a submitSchoolRanking call by a participant whose ranking is already
\* committed ends in its first step and writes nothing (vote counters,
\* weighted scores and ranking rows stay as they are); with a well-formed
\* body it is answered AlreadySubmitted (409).
C11_SecondCallAlreadySubmitted ==
    [][\A r \in Slots : SecondCall(r) =>
          /\ req'[r].pc = "done"
          /\ tables' = tables
          /\ WellFormed(req'[r].rankings) =>
                req'[r].status = 409 /\ req'[r].error = "AlreadySubmitted"]_vars

\* a participant with three committed rows was answered AlreadySubmitted
C11_Witness ==
    \E r \in Slots :
        /\ req[r].kind = "ranking"
        /\ req[r].status = 409
        /\ req[r].error = "AlreadySubmitted"
        /\ RowsOf(req[r].user) = 3
        /\ students[req[r].user].has_completed_ranking

\* C12: has_completed_ranking is permanent: no step of any request (scan,
\* feedback, ranking, failure, rollback) takes it from true to false.
C12_CompletedIsPermanent ==
    [][\A p \in Students :
          students[p].has_completed_ranking => students'[p].has_completed_ranking]_vars

\* p1's ranking is committed; p1 was scanned in and out, gave feedback and was
\* refused a second ranking, and the flag is still set
C12_Witness ==
    /\ students["p1"].has_completed_ranking
    /\ RowsOf("p1") = 3
    /\ Len(RecordsOf("p1")) = 2
    /\ FeedbacksOfFor("p1", "s1") = 1
    /\ \E r \in Slots : req[r].kind = "ranking" /\ req[r].status = 409

\* C13: no participant ever holds more than 200 Feedback records, however
\* the submitFeedback requests interleave.
C13_AtMostLimit ==
    \A p \in Students : FeedbacksOf(p) <= FEEDBACK_LIMIT

\* unit r takes a submitFeedback request in this step
FeedbackArrives(r) == Free(r) /\ nreq'.feedback = nreq.feedback + 1

\* a feedback body that passes for any participant: a stall id and a rating
\* from 1 to 5
FeedbackBodyOk(q) ==
    q.stall_id # "" /\ q.rating.t = "number" /\ q.rating.v \in 1..5

\* C14: a submitFeedback by a participant whose is_inside_event is false when
\* the request is submitted ends in its first step and changes no record or
\* counter, answered NotCheckedIn (403) when its body is in order; and a
\* Feedback record is only ever inserted by a request whose participant was
\* inside when it was submitted.
C14_OnlyCheckedInGiveFeedback ==
    [][\A r \in Slots :
          /\ (/\ FeedbackArrives(r)
              /\ req'[r].user \in Students
              /\ ~students[req'[r].user].is_inside_event)
             => /\ req'[r].pc = "done"
                /\ tables' = tables
                /\ FeedbackBodyOk(req'[r]) =>
                      req'[r].status = 403 /\ req'[r].error = "NotCheckedIn"
          /\ (req[r].pc = "create" /\ req'[r].pc = "incrementStudent")
             => /\ req[r].student.found
                /\ req[r].student.is_inside_event]_vars

\* a participant who is outside and has no Feedback record was refused
C14_Witness ==
    \E r \in Slots :
        /\ req[r].kind = "feedback"
        /\ req[r].error = "NotCheckedIn"
        /\ ~students[req[r].user].is_inside_event
        /\ FeedbacksOf(req[r].user) = 0
        /\ students[req[r].user].total_feedback_given = 0

\* a submitFeedback with a body in order for a stall of the directory, by a
\* participant who was inside when it was submitted
CheckedInFeedback(r) ==
    /\ req[r].kind = "feedback"
    /\ FeedbackBodyOk(req[r])
    /\ req[r].stall_id \in Stalls
    /\ req[r].student.found
    /\ req[r].student.is_inside_event

\* C15: for a participant who is checked in and under quota, a submitFeedback
\* for a pair without a record creates the record and answers 201 (unless a
\* statement fails or a racing request for the pair wins), and one for a pair
\* that has a record is answered AlreadyReviewed (409) and never gets to a
\* write.
C15_SecondIsAlreadyReviewed ==
    \A r \in Slots :
        CheckedInFeedback(r) =>
            /\ req[r].reviewed =>
                  /\ req[r].pc \in {"countByStudent", "findStall", "findExisting",
                                    "done"}
                  /\ req[r].pc = "done" =>
                        req[r].status = 409 /\ req[r].error = "AlreadyReviewed"
            /\ (~req[r].reviewed /\ req[r].pc = "done") =>
                  \/ /\ req[r].status = 201
                     /\ FeedbacksOfFor(req[r].user, req[r].stall_id) = 1
                  \/ req[r].error = "thrown"
                  \/ /\ req[r].error \in {"AlreadyReviewed", "unique_violation"}
                     /\ FeedbacksOfFor(req[r].user, req[r].stall_id) = 1

\* the first request for the pair went through, the second was refused
C15_Witness ==
    \E r \in Slots :
        /\ CheckedInFeedback(r)
        /\ req[r].reviewed
        /\ req[r].status = 409
        /\ FeedbacksOfFor(req[r].user, req[r].stall_id) = 1
        /\ students[req[r].user].total_feedback_given = 1
        /\ stalls[req[r].stall_id].total_feedback_count = 1

\* the three ranks of a body, as numbers, are 1, 2 and 3 once each
RanksAreOneTwoThree(rk) == {rk[k].rank.v : k \in 1..3} = {1, 2, 3}

\* the three stall ids of a body are pairwise distinct
PairwiseDistinct(rk) == \A j, k \in 1..3 : j # k => rk[j].stall_id # rk[k].stall_id

\* C16: a submitSchoolRanking body of three entries whose ranks are not
\* exactly 1, 2 and 3 is answered InvalidRankSet (400), and one with the ranks
\* right but a repeated stall_id is answered DuplicateStall (400); either way
\* the request ends in its first step and no table is written.  (A body with
\* both defects gets the first answer; a rank is read by its value, so the
\* strings "1", "2", "3" count as the ranks 1, 2, 3.)
C16_BadBodyRejectedWithoutWrite ==
    [][\A r \in Slots :
          (RankingArrives(r) /\ Len(req'[r].rankings) = 3) =>
             LET rk == req'[r].rankings
             IN  /\ ~RanksAreOneTwoThree(rk) =>
                       /\ req'[r].pc = "done"
                       /\ req'[r].status = 400
                       /\ req'[r].error = "InvalidRankSet"
                       /\ tables' = tables
                 /\ (RanksAreOneTwoThree(rk) /\ ~PairwiseDistinct(rk)) =>
                       /\ req'[r].pc = "done"
                       /\ req'[r].status = 400
                       /\ req'[r].error = "DuplicateStall"
                       /\ tables' = tables]_vars

\* the ranks [1, 1, 2] for three different stalls were answered InvalidRankSet
C16_Witness ==
    \E r \in Slots :
        /\ req[r].kind = "ranking"
        /\ req[r].pc = "done"
        /\ req[r].error = "InvalidRankSet"
        /\ Len(req[r].rankings) = 3
        /\ [k \in 1..3 |-> req[r].rankings[k].rank.v] = <<1, 1, 2>>
        /\ PairwiseDistinct(req[r].rankings)

\* unit r's submitSchoolRanking request gets the answer of its stall check
StallCheckAnswered(r) ==
    /\ req[r].kind = "ranking"
    /\ req[r].pc = "stallCheck"
    /\ req'[r].pc # "stallCheck"

\* the stall ids of unit r's body
RankedIds(r) == {req[r].rankings[k].stall_id : k \in 1..3}

\* every committed ranking row is for a stall of its participant's school
RowsInOwnSchool ==
    \A row \in BagToSet(rankings) :
        /\ row.stall_id \in Stalls
        /\ StallSchool(row.stall_id) = StudentSchool(row.student_id)

\* C17: no ranking row is ever committed for a stall of another school; a
\* submission that passed the body and one-time checks, names three stalls of
\* the directory and has one of another school among them is answered
\* CrossSchoolStall (403) at the stall check, ends there and writes nothing.
C17_NoCrossSchoolRow ==
    /\ []RowsInOwnSchool
    /\ [][\A r \in Slots :
             (/\ StallCheckAnswered(r)
              /\ RankedIds(r) \subseteq Stalls
              /\ \E s \in RankedIds(r) : StallSchool(s) # StudentSchool(req[r].user)) =>
                /\ req'[r].pc = "done"
                /\ req'[r].status = 403
                /\ req'[r].error = "CrossSchoolStall"
                /\ tables' = tables]_vars

\* a submission was answered CrossSchoolStall while its participant has no
\* ranking row and the flag unset, and another participant's rows are in
C17_Witness ==
    \E r \in Slots :
        /\ req[r].kind = "ranking"
        /\ req[r].pc = "done"
        /\ req[r].error = "CrossSchoolStall"
        /\ RowsOf(req[r].user) = 0
        /\ ~students[req[r].user].has_completed_ranking
        /\ \A s \in Stalls : StallSchool(s) # StudentSchool(req[r].user) => RowsFor(s) = 0
        /\ \E p \in Students : p # req[r].user /\ RowsOf(p) = 3

StoredRatingsInRange == \A f \in BagToSet(feedbacks) : f.rating \in 1..5

\* a rating that is no number from 1 to 5
OutsideOneToFive(rating) == rating.t = "word" \/ rating.v \notin 1..5

\* C19: every stored Feedback record has a rating in 1..5, and a
\* submitFeedback whose rating is outside 1..5 is rejected in its first step,
\* before any table is read or written: it is answered 400 (OutOfRange; a
\* rating of 0 is answered as a missing field) and no later step of the
\* request runs.
C19_OutOfRangeRejectedFirst ==
    /\ []StoredRatingsInRange
    /\ [][\A r \in Slots :
             (/\ FeedbackArrives(r)
              /\ req'[r].stall_id # ""
              /\ OutsideOneToFive(req'[r].rating)) =>
                /\ req'[r].pc = "done"
                /\ req'[r].status = 400
                /\ req'[r].error \in {"OutOfRange", "Required"}
                /\ tables' = tables]_vars

\* the ENTRY records of record i's participant that were written before it
EntriesBefore(i) ==
    {j \in 1..(i - 1) : /\ check_in_outs[j].student_id = check_in_outs[i].student_id
                        /\ check_in_outs[j].scan_type = "ENTRY"}

\* the last of a non-empty set of record numbers
Latest(js) == CHOOSE j \in js : \A k \in js : k <= j

\* C20: every EXIT attendance record carries a duration, equal to the time
\* of its scan minus the timestamp of the latest ENTRY record written before
\* it for the same participant, and never negative; an ENTRY record carries
\* no duration.
C20_ExitCarriesDuration ==
    \A i \in 1..Len(check_in_outs) :
        LET c == check_in_outs[i]
        IN  IF c.scan_type = "ENTRY" THEN c.duration = NoDuration
            ELSE /\ EntriesBefore(i) # {}
                 /\ c.duration =
                       {c.timestamp - check_in_outs[Latest(EntriesBefore(i))].timestamp}
                 /\ \A d \in c.duration : d >= 0

\* a participant has two ENTRY records of different times and then an EXIT
\* record, later than both, whose duration counts from the second
C20_Witness ==
    \E i \in 1..Len(check_in_outs) :
        /\ check_in_outs[i].scan_type = "EXIT"
        /\ \E d \in check_in_outs[i].duration : d > 0
        /\ \E j, k \in EntriesBefore(i) :
              /\ check_in_outs[j].timestamp < check_in_outs[k].timestamp
              /\ check_in_outs[k].timestamp < check_in_outs[i].timestamp

\* the direction of participant p's most recent attendance record is ENTRY
LastRecordIsEntry(p) ==
    /\ RecordsOf(p) # <<>>
    /\ RecordsOf(p)[Len(RecordsOf(p))].scan_type = "ENTRY"

\* C21: in every state a participant's is_inside_event is true exactly when
\* the participant's most recent attendance record is an ENTRY, and false when
\* there is no record or the most recent one is an EXIT.
C21_FlagMatchesLastRecord ==
    \A p \in Students : students[p].is_inside_event = LastRecordIsEntry(p)

\* unit r's scan is processed in this step
ScanProcessed(r) ==
    /\ req[r].kind = "scan"
    /\ req[r].pc = "process"
    /\ req'[r].pc # "process"

\* C22: a scan by an active volunteer whose decoded identity matches no
\* participant fails with ParticipantNotFound (404) and changes nothing: no
\* participant's flag, no attendance record and no scan counter.
C22_UnknownParticipantNotFound ==
    [][\A r \in Slots :
          (ScanProcessed(r) /\ req[r].reg \notin Students) =>
             /\ req'[r].pc = "done"
             /\ req'[r].status = 404
             /\ req'[r].error = "ParticipantNotFound"
             /\ students' = students
             /\ check_in_outs' = check_in_outs
             /\ volunteers' = volunteers]_vars

\* unit r's scan gets the answer of the look-up of its volunteer
VolunteerChecked(r) ==
    /\ req[r].kind = "scan"
    /\ req[r].pc = "findVolunteer"
    /\ req'[r].pc # "findVolunteer"

\* C27: a student scan requested by a volunteer account whose is_active is
\* false is rejected with 403 and ends there; the scanned student's
\* is_inside_event, the attendance records and the volunteer's scan count stay
\* as they are, at the rejection and ever after on account of that request.
C27_InactiveVolunteerBlocked ==
    /\ [](\A v \in Volunteers :
             ~VolunteerActive(v) =>
                /\ volunteers[v].total_scans_performed = 0
                /\ \A k \in 1..Len(check_in_outs) : check_in_outs[k].volunteer_id # v)
    /\ [][\A r \in Slots :
             (VolunteerChecked(r) /\ req[r].user \in Volunteers
                                  /\ ~VolunteerActive(req[r].user)) =>
                /\ req'[r].pc = "done"
                /\ req'[r].status = 403
                /\ tables' = tables]_vars

\* an inactive volunteer's scan of a student who is inside was refused, and
\* the student is still inside with one record
C27_Witness ==
    \E r \in Slots :
        /\ req[r].kind = "scan"
        /\ req[r].pc = "done"
        /\ req[r].status = 403
        /\ ~VolunteerActive(req[r].user)
        /\ req[r].reg \in Students
        /\ students[req[r].reg].is_inside_event
        /\ Len(RecordsOf(req[r].reg)) = 1

\* the participant an operation is about: the one scanned, or the requester
Subject(q) == IF q.kind = "scan" THEN q.reg ELSE q.user

\* unit r's request takes a step
Moves(r) == req'[r] # req[r] /\ req'[r].kind # "none"

\* what the tables hold about participant p
FeedbackRowsOf(table, p) ==
    [f \in {g \in BagToSet(table) : g.student_id = p} |-> table[f]]
RankingRowsOf(table, p) ==
    [row \in {g \in BagToSet(table) : g.student_id = p} |-> table[row]]
AttendanceOf(records, p) == SelectSeq(records, LAMBDA c : c.student_id = p)

\* no step of a request about one participant changes what the tables hold
\* about another
OthersUntouched ==
    \A r \in Slots : Moves(r) =>
        \A other \in Students \ {Subject(req'[r])} :
            /\ students'[other] = students[other]
            /\ AttendanceOf(check_in_outs', other) = AttendanceOf(check_in_outs, other)
            /\ FeedbackRowsOf(feedbacks', other) = FeedbackRowsOf(feedbacks, other)
            /\ RankingRowsOf(rankings', other) = RankingRowsOf(rankings, other)

\* A whole operation run on its own from tables db: the writes of an accepted
\* request, and no write for a refused one.
ScanDone(db, v, p) ==
    IF p \notin Students \/ Inactive(v) THEN db
    ELSE LET action == Action(db.students[p])
             row == [student_id |-> p, volunteer_id |-> v, scan_type |-> action,
                     timestamp |-> now,
                     duration |-> Duration(db.check_in_outs, p, action, now)]
         IN  ApplyOp(ProcessCheckInOut(db, p, row), [op |-> "count_scan", id |-> v])

FeedbackDone(db, p, s, rating) ==
    IF \/ s = "" \/ Falsy(rating) \/ OutOfRange(rating) \/ CheckViolation(rating)
       \/ p \notin Students
       \/ s \notin Stalls
    THEN db
    ELSE IF \/ NotCheckedIn(db.students[p])
            \/ RowCount(db.feedbacks,
                        {f \in BagToSet(db.feedbacks) : f.student_id = p}) >= FEEDBACK_LIMIT
            \/ \E f \in BagToSet(db.feedbacks) : IsFeedbackOf(p, s, f)
    THEN db
    ELSE ApplyOps(db, <<[op |-> "insert_feedback",
                         row |-> [student_id |-> p, stall_id |-> s,
                                  rating |-> rating.v]],
                        [op |-> "count_student_feedback", id |-> p],
                        [op |-> "count_stall_feedback", id |-> s]>>)

RankingDone(db, p, rk) ==
    LET stallsToRank == {rk[k].stall_id : k \in 1..Len(rk)} \cap Stalls
    IN  IF \/ Len(rk) # 3 \/ ~RankSetOk(rk) \/ ~StallsDistinct(rk)
           \/ p \notin Students
        THEN db
        ELSE IF \/ AlreadySubmitted(db.students[p])
                \/ StallsMissing(stallsToRank)
                \/ InvalidStalls(stallsToRank, StudentSchool(p)) # {}
        THEN db
        ELSE ApplyOps(db, <<[op |-> "insert_rankings", rows |-> RankingRows(p, rk)],
                            [op |-> "complete_ranking", id |-> p]>>
                          \o [k \in 1..3 |-> [op |-> "vote", id |-> rk[k].stall_id,
                                              col |-> ColumnName(rk[k].rank)]])

\* the operations a participant is the subject of
OperationsOn(p) ==
    {[kind |-> "scan", p |-> p, v |-> "v1"]}
    \cup {[kind |-> "feedback", p |-> p, s |-> s, rating |-> Num(3)] : s \in {"s1", "s2"}}
    \cup {[kind |-> "ranking", p |-> p, rk |-> rk] : rk \in RankingBodies}

Done(db, o) ==
    CASE o.kind = "scan" -> ScanDone(db, o.v, o.p)
      [] o.kind = "feedback" -> FeedbackDone(db, o.p, o.s, o.rating)
      [] o.kind = "ranking" -> RankingDone(db, o.p, o.rk)

\* two states of the tables hold the same rows (rows of a table have no order)
SameTables(a, b) ==
    /\ a.students = b.students
    /\ a.stalls = b.stalls
    /\ a.volunteers = b.volunteers
    /\ a.feedbacks = b.feedbacks
    /\ a.rankings = b.rankings
    /\ \A p \in Students :
          AttendanceOf(a.check_in_outs, p) = AttendanceOf(b.check_in_outs, p)

\* from the tables as they are, two operations on different participants
\* leave the same tables in either order
EitherOrder ==
    \A p, other \in Students : p # other =>
        \A o1 \in OperationsOn(p), o2 \in OperationsOn(other) :
            SameTables(Done(Done(DB, o1), o2), Done(Done(DB, o2), o1))

\* C30: operations on different participants are independent: no step of a
\* scan, feedback or ranking request about participant P changes Q's flags,
\* feedback counter, attendance records, feedback records or ranking rows, and
\* from every reachable state two operations on P and on Q leave the same
\* tables whichever runs first.
C30_DifferentParticipantsIndependent ==
    /\ []EitherOrder
    /\ [][OthersUntouched]_vars

\* the script ran to "All tokens regenerated successfully"
RegenerateCompleted == script.pc = "done"

\* C29: after regenerate-qr-tokens completes without error no stale cache
\* entry remains: the cache entry of every replaced student token and of every
\* new token is cleared, and every student and stall row holds a token the
\* run generated.
C29_NoStaleCacheEntry ==
    RegenerateCompleted =>
        /\ \A t \in script.replaced : t.of \in Students => t \notin cache
        /\ \A p \in Students : qr_code_token[p] \notin cache
        /\ \A x \in Students \cup Stalls :
              /\ qr_code_token[x] \in script.generated
              /\ qr_code_token[x] # OldToken(x)

(***************************************************************************)
(* Session tokens (jsonwebtoken) and the authentication middleware         *)
(* (middleware/auth.js), and the routes that use it.                       *)
(***************************************************************************)
\* process.env.JWT_SECRET, and a key that is not the server's
JWT_SECRET == "JWT_SECRET"
OtherSecret == "other"
\* the signature binds what was signed to the key that signed it
Sign(payload, key) == [signed |-> payload, by |-> key]

\* expiresIn: '24h', in seconds
ExpiresIn == 86400
NoPayload == [id |-> "none", role |-> "none", exp |-> 0]
\* jwt.sign(payload, key): header.payload.signature
JwtSign(payload, key) ==
    [parts |-> 3, payload |-> payload, signature |-> Sign(payload, key)]
\* no token at all: undefined, null or the empty string
NoJwt == [parts |-> 0, payload |-> NoPayload, signature |-> Sign(NoPayload, "none")]
\* !token
NoTokenGiven(token) == token.parts = 0
\* jwt.verify(token, key): the shape, then the signature, then the expiry
JwtVerify(token, key, at) ==
    IF token.parts # 3 THEN [err |-> "JsonWebTokenError", decoded |-> NoPayload]
    ELSE IF token.signature # Sign(token.payload, key)
    THEN [err |-> "JsonWebTokenError", decoded |-> NoPayload]
    ELSE IF at >= token.payload.exp
    THEN [err |-> "TokenExpiredError", decoded |-> NoPayload]
    ELSE [err |-> "none", decoded |-> token.payload]

\* the payload signed at login, for a login at time 0
LoginPayload(id, role) == [id |-> id, role |-> role, exp |-> ExpiresIn]
SessionToken(id, role) == JwtSign(LoginPayload(id, role), JWT_SECRET)
\* tokens jwt.verify refuses: signed with another key, payload changed after
\* signing, expired, not a JWT
ForgedToken == JwtSign(LoginPayload("v1", "VOLUNTEER"), OtherSecret)
TamperedToken ==
    [SessionToken("p1", "STUDENT") EXCEPT !.payload = LoginPayload("v1", "VOLUNTEER")]
ExpiredToken == JwtSign([id |-> "v1", role |-> "VOLUNTEER", exp |-> 0], JWT_SECRET)
MalformedToken == [NoJwt EXCEPT !.parts = 1]

\* the Authorization header: its words, and the second of them
NoHeader == [words |-> 0, second |-> NoJwt]
Bearer(token) == [words |-> 2, second |-> token]
BearerOnly == [words |-> 1, second |-> NoJwt]

\* the credentials a request may carry: the token of the auth cookie and the
\* Authorization header
CredentialNames ==
    {"nothing", "bearerOnly", "cookieV1", "headerV1", "cookieV2", "cookieP1",
     "cookieA1", "forgedCookieHeaderV1", "cookieP1HeaderV1", "headerForged",
     "headerTampered", "headerExpired", "headerMalformed"}
Cookie(c) ==
    CASE c = "cookieV1" -> SessionToken("v1", "VOLUNTEER")
      [] c = "cookieV2" -> SessionToken("v2", "VOLUNTEER")
      [] c \in {"cookieP1", "cookieP1HeaderV1"} -> SessionToken("p1", "STUDENT")
      [] c = "cookieA1" -> SessionToken("a1", "ADMIN")
      [] c = "forgedCookieHeaderV1" -> ForgedToken
      [] OTHER -> NoJwt
Header(c) ==
    CASE c = "bearerOnly" -> BearerOnly
      [] c \in {"headerV1", "forgedCookieHeaderV1", "cookieP1HeaderV1"} ->
            Bearer(SessionToken("v1", "VOLUNTEER"))
      [] c = "headerForged" -> Bearer(ForgedToken)
      [] c = "headerTampered" -> Bearer(TamperedToken)
      [] c = "headerExpired" -> Bearer(ExpiredToken)
      [] c = "headerMalformed" -> Bearer(MalformedToken)
      [] OTHER -> NoHeader

\* getTokenFromCookie(req): the token of the auth cookie, if there is one
GetTokenFromCookie(c) == Cookie(c)
\* authHeader && authHeader.split(' ')[1]
HeaderToken(c) == IF Header(c).words >= 2 THEN Header(c).second ELSE NoJwt

\* what a middleware did with a request: the answers it sent, its calls of
\* next(), and req.user
Passes(user) == [sent |-> <<>>, next |-> 1, user |-> user]
Sends(code, message) ==
    [sent |-> <<[status |-> code, message |-> message]>>, next |-> 0,
     user |-> NoPayload]
\* one middleware after another: what both did
AndThen(a, b) ==
    [sent |-> a.sent \o b.sent, next |-> a.next + b.next,
     user |-> IF b.next > 0 THEN b.user ELSE a.user]

ReturnsWithoutToken_Never(token) == FALSE
\* if (!token) { return res.status(401)... }: the function returns here
ReturnsWithoutToken(token) == NoTokenGiven(token)

CookieFirst_HeaderFirst(c) ==
    IF NoTokenGiven(HeaderToken(c)) THEN GetTokenFromCookie(c) ELSE HeaderToken(c)
\* let token = getTokenFromCookie(req); if (!token) token = <header token>
CookieFirst(c) ==
    IF NoTokenGiven(GetTokenFromCookie(c)) THEN HeaderToken(c)
    ELSE GetTokenFromCookie(c)

\* authenticateToken(req, res, next)
AuthenticateToken(c, at) ==
    LET token == CookieFirst(c)
        required == IF NoTokenGiven(token) THEN Sends(401, "Access token required")
                    ELSE [Passes(NoPayload) EXCEPT !.next = 0]
        verified == JwtVerify(token, JWT_SECRET, at)
    IN  IF ReturnsWithoutToken(token) THEN required
        ELSE AndThen(required,
                     IF verified.err # "none"
                     THEN Sends(403, "Invalid or expired token")
                     ELSE Passes(verified.decoded))

\* authorizeRoles(...roles)(req, res, next), after a middleware that did before
AuthorizeRoles(roles, before) ==
    IF before.next = 0 THEN before
    ELSE IF before.user = NoPayload
    THEN AndThen([before EXCEPT !.next = 0], Sends(401, "Authentication required"))
    ELSE IF before.user.role \notin roles
    THEN AndThen([before EXCEPT !.next = 0], Sends(403, "Access denied"))
    ELSE before

\* the routes and the middleware each route names before its controller
ScanStudentRoute == "POST /api/volunteer/scan/student"
QRCodeRoute == "GET /api/student/qr-code"
Routes == {ScanStudentRoute, QRCodeRoute}
NoRoles == {}
Middleware(route) ==
    CASE route = ScanStudentRoute -> <<[name |-> "authenticateToken", roles |-> NoRoles]>>
      [] route = QRCodeRoute -> <<[name |-> "authenticateToken", roles |-> NoRoles]>>

RECURSIVE RunMiddleware(_, _, _, _)
\* Express runs the middleware of a route in order; each runs when the one
\* before it called next()
RunMiddleware(chain, c, at, before) ==
    IF chain = <<>> THEN before
    ELSE LET m == Head(chain)
             after == IF m.name = "authenticateToken"
                      THEN IF before.next = 0 THEN before
                           ELSE AndThen([before EXCEPT !.next = 0],
                                        AuthenticateToken(c, at))
                      ELSE AuthorizeRoles(m.roles, before)
         IN  RunMiddleware(Tail(chain), c, at, after)

\* the request as the router hands it on
Routed(route, c, at) ==
    LET did == RunMiddleware(Middleware(route), c, at, Passes(NoPayload))
    IN  [BlankReq EXCEPT !.user = did.user.id,
                         !.http = [route |-> route, credentials |-> c,
                                   sent |-> did.sent, next |-> did.next,
                                   role |-> did.user.role]]

(***************************************************************************)
(* QRCodeService: the rotating token of a student.                         *)
(***************************************************************************)
ROTATION_INTERVAL_SECONDS == 2
GRACE_PERIOD_WINDOWS == 1
\* floor(now / ROTATION_INTERVAL)
CurrentWindow(at) == at \div ROTATION_INTERVAL_SECONDS

\* the token string: the parts of the claim, then the signature
Encode(claim, signature) == <<claim.t, claim.r, claim.w, claim.n, signature>>
\* the claim a token string of five parts carries
Decode(token) == [n |-> token[4], t |-> token[1], r |-> token[2], w |-> token[3]]
\* QRCodeService.generateRotatingStudentToken(student), with the clock
\* reading at and the nonce drawn
GenerateRotatingStudentToken(student, at, nonce) ==
    LET claim == [n |-> nonce, t |-> "STUDENT", r |-> student.registration_no,
                  w |-> CurrentWindow(at)]
    IN  Encode(claim, Sign(claim, JWT_SECRET))

Invalid(error) == [valid |-> FALSE, registration_no |-> "undefined", error |-> error]
WithinGrace_Forever(w, c) == TRUE
\* the window of the token is not older than the grace period allows
WithinGrace(w, c) == w >= c - GRACE_PERIOD_WINDOWS
NotFromFuture_Any(w, c) == TRUE
NotFromFuture_Strict(w, c) == w < c
\* the window of the token is not ahead of the verifier's
NotFromFuture(w, c) == w <= c
SignedBy_Anyone(token, key) == TRUE
\* the signature of the token string is the key's signature of its claim
SignedBy(token, key) == token[5] = Sign(Decode(token), key)
\* QRCodeService.verifyStudentQRToken(token), with the clock reading at
VerifyStudentQRToken(token, at) ==
    IF Len(token) # 5 THEN Invalid("Malformed")
    ELSE LET claim == Decode(token)
         IN  IF ~SignedBy(token, JWT_SECRET) THEN Invalid("BadSignature")
             ELSE IF claim.t # "STUDENT" THEN Invalid("Malformed")
             ELSE IF ~NotFromFuture(claim.w, CurrentWindow(at))
             THEN Invalid("FutureWindow")
             ELSE IF ~WithinGrace(claim.w, CurrentWindow(at)) THEN Invalid("Expired")
             ELSE [valid |-> TRUE, registration_no |-> claim.r, error |-> "none"]

\* the token strings a scanner may be shown: tokens the service minted at
\* some reading of a clock, and strings it never minted
MintedTokens ==
    {GenerateRotatingStudentToken([registration_no |-> p], at, "a") :
        p \in Students, at \in 0..MaxTokenTime}
WronglySigned(p) ==
    LET claim == [n |-> "a", t |-> "STUDENT", r |-> p, w |-> 0]
    IN  Encode(claim, Sign(claim, OtherSecret))
\* a minted token of p1 whose subject was changed to p2
Tampered == [GenerateRotatingStudentToken([registration_no |-> "p1"], 0, "a")
               EXCEPT ![2] = "p2"]
Garbage == <<"garbage">>
BadTokens == {WronglySigned("p1"), Tampered, Garbage}
PresentedTokens == MintedTokens \cup BadTokens
\* how verifyStudentQRToken tells its caller of a token it refuses: it
\* throws, or it returns a result that is not valid
Signals == {"throws", "returns"}

\* scanStudentQR of a request whose body holds the token
ScanStudentQRToken(r, request, token, signal) ==
    LET decoded == VerifyStudentQRToken(token, now)
        shown == [request EXCEPT !.token = token]
    IN  IF decoded.valid \/ signal = "returns"
        THEN ScanStudentQRRequest(r, shown, decoded.registration_no)
        ELSE \* the error goes to catch: next(error)
             /\ Free(r)
             /\ nreq.scan < MaxScans
             /\ nreq' = [nreq EXCEPT !.scan = @ + 1]
             /\ Take(r, ErrorResponse([shown EXCEPT !.kind = "scan"],
                                      decoded.error, 500))
             /\ UNCHANGED <<tables, raced, now, regen>>

\* getQRCode: Student.findById(req.user.id); the rotating token of the
\* student is minted and returned
GetQRCode(r, request, nonce) ==
    /\ Free(r)
    /\ LET q == [request EXCEPT !.kind = "qr"]
       IN  Take(r,
             IF ~FindStudent(request.user).found
             THEN ErrorResponse(q, "StudentNotFound", 404)
             ELSE [Respond(q, 200) EXCEPT !.token =
                     GenerateRotatingStudentToken(
                         [registration_no |-> request.user], now, nonce)])
    /\ UNCHANGED <<tables, nreq, raced, now, regen>>

\* QRCodeService.verifyStallQRToken: STALL_{number}_{timestamp}_{id}
VerifyStallQRToken(token) == [valid |-> token.format = "stall"]
\* Stall.findByQRToken
FindByQRToken(token) == {s \in Stalls : qr_code_token[s] = token}
StallTokens ==
    {GenerateStallQRToken([stall_number |-> "s1"], "a"), OldToken("s1"), Undefined}
\* scanStall: a student scans the QR code of a stall.  The request arrives;
\* if (!stall_qr_token); QRCodeService.verifyStallQRToken
ScanStall(r, request, stall_qr_token) ==
    /\ Free(r)
    /\ LET q == [request EXCEPT !.kind = "scanStall",
                                !.stall_qr_token = stall_qr_token]
       IN  Take(r,
             IF stall_qr_token = Undefined THEN ErrorResponse(q, "Required", 400)
             ELSE IF ~VerifyStallQRToken(stall_qr_token).valid
             THEN ErrorResponse(q, "InvalidStallQR", 400)
             ELSE [q EXCEPT !.pc = "findByQRToken"])
    /\ UNCHANGED <<tables, nreq, raced, now, regen>>

\* const stall = await Stall.findByQRToken(stall_qr_token, query)
SsFindByQRToken(r) ==
    /\ req[r].kind = "scanStall"
    /\ req[r].pc = "findByQRToken"
    /\ LET found == FindByQRToken(req[r].stall_qr_token)
       IN  req' = [req EXCEPT ![r] =
             IF found = {} THEN ErrorResponse(@, "StallNotFound", 404)
             ELSE [@ EXCEPT !.stall_id = CHOOSE s \in found : TRUE,
                            !.pc = "findStudent"]]
    /\ UNCHANGED <<tables, nreq, raced, now, regen>>

\* const student = await Student.findById(req.user.id, query); inside?
SsFindStudent(r) ==
    /\ req[r].kind = "scanStall"
    /\ req[r].pc = "findStudent"
    /\ LET student == FindStudent(req[r].user)
       IN  req' = [req EXCEPT ![r] =
             IF ~student.found THEN ErrorResponse(@, "StudentNotFound", 404)
             ELSE IF NotCheckedIn(student) THEN ErrorResponse(@, "NotCheckedIn", 403)
             ELSE [@ EXCEPT !.pc = "findReview"]]
    /\ UNCHANGED <<tables, nreq, raced, now, regen>>

\* const existingFeedback = await Feedback.findByStudentAndStall(...);
\* successResponse with already_reviewed: !!existingFeedback
SsFindReview(r) ==
    /\ req[r].kind = "scanStall"
    /\ req[r].pc = "findReview"
    /\ req' = [req EXCEPT ![r] =
           [Respond(@, 200) EXCEPT
               !.reviewed = ExistingFeedback(req[r].user, req[r].stall_id)]]
    /\ UNCHANGED <<tables, nreq, raced, now, regen>>

\* the clock advances
TokenTick ==
    /\ now < MaxTokenTime
    /\ now' = now + 1
    /\ UNCHANGED <<tables, req, nreq, raced, regen>>

\* no request is being handled
Quiet == \A o \in Slots : req[o].pc \in {"idle", "done"}

\* the active volunteer scans the tokens shown to it while time passes;
\* students fetch their token and scan stalls; a request arrives when the
\* one before it was answered
NextToken ==
    \/ TokenTick
    \/ \E r \in Slots :
          /\ Scheduled(r)
          /\ Free(r) => Quiet
          /\
            \/ \E token \in PresentedTokens, signal \in Signals :
                  /\ nreq.scan < MaxTokenScans
                  /\ ScanStudentQRToken(r, [BlankReq EXCEPT !.user = "v1"],
                                        token, signal)
            \/ \E p \in Students, nonce \in Nonces :
                  GetQRCode(r, [BlankReq EXCEPT !.user = p], nonce)
            \/ \E p \in Students, t \in StallTokens :
                  ScanStall(r, [BlankReq EXCEPT !.user = p], t)
            \/ SsFindByQRToken(r)
            \/ ScFindVolunteer(r)
            \/ ScProcess(r)
            \/ ScCountScan(r)

SpecToken == Init /\ [][NextToken]_vars

\* a request the middleware answered never reaches the controller
Refuse(r, request) ==
    /\ Free(r)
    /\ Take(r, ErrorResponse([request EXCEPT !.kind = "http"],
                             request.http.sent[1].message,
                             request.http.sent[1].status))
    /\ UNCHANGED <<tables, nreq, raced, now, regen>>

\* router.post('/scan/student', authenticateToken, scanStudentQR)
PostScanStudent(r, c, reg) ==
    LET request == Routed(ScanStudentRoute, c, now)
    IN  IF request.http.next > 0 THEN ScanStudentQRRequest(r, request, reg)
        ELSE Refuse(r, request)

\* router.get('/qr-code', authenticateToken, getQRCode)
GetQRCodeRoute(r, c, nonce) ==
    LET request == Routed(QRCodeRoute, c, now)
    IN  IF request.http.next > 0 THEN GetQRCode(r, request, nonce)
        ELSE Refuse(r, request)

\* requests arrive through the router with any of the credentials, each
\* when the one before it was answered
NextAuth ==
    \E r \in Slots :
      /\ Scheduled(r)
      /\ Free(r) => Quiet
      /\
        \/ \E c \in CredentialNames, reg \in Students :
              nreq.scan < MaxRoutedScans /\ PostScanStudent(r, c, reg)
        \/ \E c \in CredentialNames : GetQRCodeRoute(r, c, "a")
        \/ ScFindVolunteer(r)
        \/ ScProcess(r)
        \/ ScCountScan(r)

SpecAuth == Init /\ [][NextAuth]_vars

(***************************************************************************)
(* C28: authenticateToken has exactly one outcome for a request: 401 when  *)
(* neither the cookie nor the Authorization header gives a token, 403 when *)
(* the token fails verification, and otherwise req.user is the decoded     *)
(* payload and next() is called once.  The cookie's token is the one       *)
(* judged whenever there is one; the header's only when there is none.     *)
(***************************************************************************)
\* the requests on view that came through the router
CameThroughRouter(r) == req[r].http.route # "none"
\* the token the claim says is judged
TokenJudged(c) ==
    IF Cookie(c) # NoJwt THEN Cookie(c)
    ELSE IF Header(c).words >= 2 THEN Header(c).second
    ELSE NoJwt
RoleOfRoute(route) == IF route = ScanStudentRoute THEN "VOLUNTEER" ELSE "STUDENT"
\* the session token was valid and names another role
WrongRole(r) ==
    /\ req[r].http.route \in Routes
    /\ req[r].http.next > 0
    /\ req[r].http.role # RoleOfRoute(req[r].http.route)
WrongRoleRefused ==
    \A r \in Slots : WrongRole(r) =>
        /\ req[r].pc = "done"
        /\ req[r].status = 403
OnlyVolunteersToggle ==
    \A k \in 1..Len(check_in_outs) : check_in_outs[k].volunteer_id \in Volunteers
C26_RoleGating == WrongRoleRefused /\ OnlyVolunteersToggle

(***************************************************************************)
(* C23: round trip.  The token getQRCode mints for a student at a reading  *)
(* of the clock verifies at that reading and names that student.           *)
(***************************************************************************)
\* getQRCode answers in this step with a freshly minted token
Mints(r) ==
    /\ req'[r] # req[r]
    /\ req'[r].kind = "qr"
    /\ req'[r].status = 200
C23_RoundTrip ==
    [][\A r \in Slots : Mints(r) =>
          LET decoded == VerifyStudentQRToken(req'[r].token, now')
          IN  /\ decoded.valid
              /\ decoded.registration_no = req'[r].user]_vars

\* C23 witness: a token minted for p2 in a window after the first is on
\* view in the window it was minted in
C23_Witness ==
    \E r \in Slots :
        /\ req[r].kind = "qr"
        /\ req[r].status = 200
        /\ req[r].user = "p2"
        /\ now = 3
        /\ Len(req[r].token) = 5
        /\ req[r].token[3] = 1
        /\ req[r].token[2] = "p2"

(***************************************************************************)
(* C24: a minted token of window w shown to a scan when the clock is in    *)
(* window c is accepted exactly when w <= c <= w + GRACE_PERIOD_WINDOWS;   *)
(* for c > w + GRACE_PERIOD_WINDOWS it is refused as expired, for c < w    *)
(* as a token of a future window.                                          *)
(***************************************************************************)
\* a scan arrives in this step and shows a token the service minted
MintedShown(r) ==
    /\ req'[r] # req[r]
    /\ nreq'.scan = nreq.scan + 1
    /\ req'[r].kind = "scan"
    /\ req'[r].token \in MintedTokens
\* the scan goes on for the student the token names
Accepted(q) ==
    /\ q.reg = q.token[2]
    /\ q.pc = "findVolunteer"
\* the scan names no student: it is answered with the error at once, or goes
\* on with an undefined registration number
RefusedAs(q, error) ==
    /\ q.reg \notin Students
    /\ \/ q.pc = "done" /\ q.status = 500 /\ q.error = error
       \/ q.pc = "findVolunteer" /\ q.reg = "undefined"
C24_AcceptedWithinGrace ==
    [][\A r \in Slots : MintedShown(r) =>
          LET q == req'[r]
              w == q.token[3]
              c == now' \div ROTATION_INTERVAL_SECONDS
              decoded == VerifyStudentQRToken(q.token, now')
          IN  /\ (w <= c /\ c <= w + GRACE_PERIOD_WINDOWS) =>
                    decoded.valid /\ Accepted(q)
              /\ c > w + GRACE_PERIOD_WINDOWS =>
                    ~decoded.valid /\ decoded.error = "Expired"
                    /\ RefusedAs(q, "Expired")
              /\ c < w =>
                    ~decoded.valid /\ decoded.error = "FutureWindow"
                    /\ RefusedAs(q, "FutureWindow")]_vars

\* C24 witness: a token of window 0 was refused as expired when the clock
\* was in window 2, the first window after the grace period
C24_Witness ==
    \E r \in Slots :
        /\ req[r].kind = "scan"
        /\ Len(req[r].token) = 5
        /\ req[r].token \in MintedTokens
        /\ req[r].token[3] = 0
        /\ req[r].error = "Expired"
        /\ now = 2 * ROTATION_INTERVAL_SECONDS

(***************************************************************************)
(* C25: a scan shown a malformed, tampered or wrongly signed token ends in *)
(* an error answer, and no step of it changes a table (flags, attendance   *)
(* records, feedback, counters).                                           *)
(***************************************************************************)
\* the request in unit r of the next state was shown a token that is
\* malformed, tampered with or signed with another key
BadTokenShown(q) ==
    \/ q.kind = "scan" /\ q.token \in BadTokens
    \/ q.kind = "scanStall" /\ q.stall_qr_token \in {Undefined, OldToken("s1")}
C25_BadTokenFailsClosed ==
    /\ [](\A r \in Slots : BadTokenShown(req[r]) =>
              /\ req[r].pc # "countScan"
              /\ req[r].pc = "done" => req[r].status \in {400, 500})
    /\ [][(\E r \in Slots : BadTokenShown(req'[r]) /\ req'[r] # req[r])
             => UNCHANGED tables]_vars

\* C25 witness: the scan of a token of p1 whose subject was changed to p2
\* was answered with an error, with everybody still outside and no
\* attendance record written
C25_Witness ==
    \E r \in Slots :
        /\ req[r].kind = "scan"
        /\ req[r].token = Tampered
        /\ req[r].pc = "done"
        /\ req[r].status = 500
        /\ \A p \in Students : ~students[p].is_inside_event
        /\ check_in_outs = <<>>

(***************************************************************************)
(* C31: rank_1_votes, rank_2_votes and rank_3_votes of a stall never       *)
(* decrease, whatever happens (failed and rolled-back submissions          *)
(* included); a step changes a counter by +1 only, and only the commit of  *)
(* a ranking submission changes one.                                       *)
(***************************************************************************)
VoteColumns == {"rank_1_votes", "rank_2_votes", "rank_3_votes"}
C31_VoteCountersOnlyGrow ==
    [][\A s \in Stalls, col \in VoteColumns :
          /\ stalls'[s][col] >= stalls[s][col]
          /\ stalls'[s][col] # stalls[s][col] =>
                /\ stalls'[s][col] = stalls[s][col] + 1
                /\ \E r \in Slots : Commits(r)]_vars

\* C31 witness: one submission was rolled back, another committed, and
\* the counter of the stall ranked first stands at 1
C31_Witness ==
    /\ stalls["s1"].rank_1_votes = 1
    /\ \E r \in Slots : req[r].kind = "ranking" /\ req[r].pc = "done"
                         /\ req[r].status = 500
    /\ \E r \in Slots : req[r].kind = "ranking" /\ req[r].pc = "respond"

(***************************************************************************)
(* Scans whose statements may fail.                                        *)
(***************************************************************************)
\* an awaited statement of scanStudentQR rejects (time-out, connection
\* loss): the error goes to the error handler, and what was written before
\* stays written, there being no transaction
ScThrow(r) ==
    /\ req[r].kind = "scan"
    /\ req[r].pc \in {"findVolunteer", "process", "countScan"}
    /\ req' = [req EXCEPT ![r] = ErrorResponse(@, "thrown", 500)]
    /\ UNCHANGED <<tables, nreq, raced, now, regen>>

NextScanFaults ==
    \E r \in Slots :
      /\ Scheduled(r)
      /\
        \/ \E v \in Volunteers, reg \in UserIds : ScanStudentQR(r, v, reg)
        \/ ScFindVolunteer(r)
        \/ ScProcess(r)
        \/ ScCountScan(r)
        \/ ScThrow(r)

SpecScanFaults == Init /\ [][NextScanFaults]_vars

(***************************************************************************)
(* C32: each successful scan creates exactly one attendance record, and no *)
(* other scan creates one, so that a participant has as many records as    *)
(* successful scans; a record, once written, is never changed or removed.  *)
(***************************************************************************)
\* the scan in unit r is answered in this step
ScanAnswered(r) ==
    /\ req[r].kind = "scan"
    /\ req[r].pc # "done"
    /\ req'[r].pc = "done"
\* the scan in unit r has written its attendance record
WroteRecord(q) == q.action # "none"
RecordsKept ==
    /\ Len(check_in_outs') \in {Len(check_in_outs), Len(check_in_outs) + 1}
    /\ \A k \in 1..Len(check_in_outs) : check_in_outs'[k] = check_in_outs[k]
    /\ Len(check_in_outs') > Len(check_in_outs) =>
          \E r \in Slots : /\ req[r].kind = "scan"
                           /\ ~WroteRecord(req[r])
                           /\ WroteRecord(req'[r])
                           /\ check_in_outs'[Len(check_in_outs')].student_id
                                 = req[r].reg
C32_OneRecordPerSuccessfulScan ==
    [][/\ RecordsKept
       /\ \A r \in Slots : ScanAnswered(r) =>
             (req'[r].status = 200 <=> WroteRecord(req[r]))]_vars

(***************************************************************************)
(* C33: total_scans_performed of a volunteer is the number of successful   *)
(* student scans of that volunteer: whenever no scan is being handled it   *)
(* equals the number of students the volunteer's scans toggled, a step     *)
(* raises it by 1 at most, and a refused scan does not raise it.           *)
(***************************************************************************)
ToggledBy(v) ==
    Cardinality({k \in 1..Len(check_in_outs) : check_in_outs[k].volunteer_id = v})
NoScanInFlight == \A r \in Slots : req[r].kind = "scan" => req[r].pc = "done"
CountedAsToggled ==
    NoScanInFlight =>
        \A v \in Volunteers : volunteers[v].total_scans_performed = ToggledBy(v)
CountRaisedByToggle ==
    \A v \in Volunteers :
        /\ volunteers'[v].total_scans_performed
              \in {volunteers[v].total_scans_performed,
                   volunteers[v].total_scans_performed + 1}
        /\ volunteers'[v].total_scans_performed # volunteers[v].total_scans_performed
              => \E r \in Slots : /\ req[r].kind = "scan"
                                  /\ req[r].user = v
                                  /\ WroteRecord(req[r])
                                  /\ req'[r].status = 200
C33_ScanCountMatchesToggles ==
    []CountedAsToggled /\ [][CountRaisedByToggle]_vars

(***************************************************************************)
(* C34: vote conservation.  In every committed state, for each N of 1, 2,  *)
(* 3, the rank_N_votes of all stalls add up to the number of participants  *)
(* whose has_completed_ranking is true, and to the number of ranking rows  *)
(* with rank N.                                                            *)
(***************************************************************************)
RECURSIVE SumVotesN(_, _)
SumVotesN(ss, n) ==
    IF ss = {} THEN 0
    ELSE LET s == CHOOSE x \in ss : TRUE
         IN  VotesN(s, n) + SumVotesN(ss \ {s}, n)
Completed == {p \in Students : students[p].has_completed_ranking}
RowsWithRank(n) == RowCount(rankings, {row \in BagToSet(rankings) : row.rank = n})
C34_VotesConserved ==
    \A n \in 1..3 :
        /\ SumVotesN(Stalls, n) = Cardinality(Completed)
        /\ SumVotesN(Stalls, n) = RowsWithRank(n)

(***************************************************************************)
(* C35: in every committed state a participant has no ranking rows and     *)
(* has_completed_ranking = false, or exactly three ranking rows, of ranks  *)
(* 1, 2 and 3 on three distinct stalls, and has_completed_ranking = true;  *)
(* so getMySchoolRanking, which reads the first row of a participant whose *)
(* flag is true, finds one.                                                *)
(***************************************************************************)
RowSetOf(p) == {row \in BagToSet(rankings) : row.student_id = p}
C35_NoneOrThreeRows ==
    \A p \in Students :
        /\ \/ /\ RowsOf(p) = 0
              /\ ~students[p].has_completed_ranking
           \/ /\ RowsOf(p) = 3
              /\ {row.rank : row \in RowSetOf(p)} = {1, 2, 3}
              /\ Cardinality({row.stall_id : row \in RowSetOf(p)}) = 3
              /\ students[p].has_completed_ranking
        /\ students[p].has_completed_ranking => RowSetOf(p) # {}

(***************************************************************************)
(* Refused feedback writes nothing.                                        *)
(***************************************************************************)
\* the statuses of the business-rule errors of submitFeedback: a missing
\* field or a rating out of range (400), NotCheckedIn or QuotaExceeded (403),
\* student or stall not found (404), AlreadyReviewed (409)
BusinessErrors == {400, 403, 404, 409}

\* the submitFeedback in unit r is answered in this step
FeedbackAnswered(r) ==
    /\ req'[r].kind = "feedback"
    /\ req'[r].pc = "done"
    /\ FeedbackArrives(r) \/ (req[r].kind = "feedback" /\ req[r].pc # "done")

\* the Feedback records and the two feedback counters
FeedbackState ==
    <<feedbacks,
      [p \in Students |-> students[p].total_feedback_given],
      [s \in Stalls |-> stalls[s].total_feedback_count]>>

\* the submitFeedback in unit r has written: it is past Feedback.create
FeedbackWritten(q) ==
    q.kind = "feedback" /\ q.pc \in {"incrementStudent", "incrementStall"}

StallQR(s) == GenerateStallQRToken([stall_number |-> s], "a")

\* the event under way: the stalls carry generated QR codes, p1 has been
\* scanned in by v1 and p2 is outside
InitStallScan ==
    /\ students = [p \in Students |->
          [StudentRow0 EXCEPT !.is_inside_event = (p = "p1")]]
    /\ stalls = [s \in Stalls |-> StallRow0]
    /\ volunteers = [v \in Volunteers |->
          [total_scans_performed |-> IF v = "v1" THEN 1 ELSE 0]]
    /\ feedbacks = EmptyBag
    /\ rankings = EmptyBag
    /\ check_in_outs = <<[student_id |-> "p1", volunteer_id |-> "v1",
                          scan_type |-> "ENTRY", timestamp |-> 0,
                          duration |-> NoDuration]>>
    /\ req = [r \in Slots |-> BlankReq]
    /\ nreq = [ranking |-> 0, scan |-> 0, feedback |-> 0]
    /\ raced = [p \in Students |-> FALSE]
    /\ now = 0
    /\ qr_code_token = [x \in Students \cup Stalls |->
                          IF x \in Stalls THEN StallQR(x) ELSE OldToken(x)]
    /\ cache = {OldToken(x) : x \in Students} \cup {StallQR(s) : s \in Stalls}
    /\ script = ScriptNotRun

\* the codes scanned: of two stalls, of a stall that is in no row, a code of
\* the old format, none
ScannedStallTokens ==
    {StallQR("s1"), StallQR("s2"), StallQR("s9"), OldToken("s1"), Undefined}
ReviewedStallIds == {"s1", "s9"}
ReviewRatings == {Num(3)}

\* Nothing here writes a stored QR code or the flag is_inside_event: the two
\* look-ups of scanStall that read them commute with every other step, as
\* the steps of VisitStepPcs do.
StallScanStepPcs == VisitStepPcs \cup {"findByQRToken", "findStudent"}
ScheduledStallScan(r) ==
    \A o \in Slots : o # r => req[o].pc \notin StallScanStepPcs

\* participants scan stalls and give feedback, requests overlapping
NextStallScan ==
    \E r \in Slots :
      /\ ScheduledStallScan(r)
      /\
        \/ \E p \in UserIds, t \in ScannedStallTokens :
              ScanStall(r, [BlankReq EXCEPT !.user = p], t)
        \/ SsFindByQRToken(r)
        \/ SsFindStudent(r)
        \/ SsFindReview(r)
        \/ \E p \in Students, s \in ReviewedStallIds, rating \in ReviewRatings :
              SubmitFeedback(r, p, s, rating)
        \/ FbCountByStudent(r)
        \/ FbFindStall(r)
        \/ FbFindExisting(r)
        \/ FbCreate(r)
        \/ FbIncrementStudent(r)
        \/ FbIncrementStall(r)
        \/ FbThrow(r)

SpecStallScan == InitStallScan /\ [][NextStallScan]_vars

\* a step of a scanStall request
ScanStallSteps(r) ==
    /\ req'[r].kind = "scanStall"
    /\ req'[r] # req[r]
    /\ \/ Free(r)
       \/ req[r].kind = "scanStall" /\ req[r].pc # "done"

\* the scanStall in unit r is answered with success in this step
ScanStallSucceeds(r) ==
    /\ ScanStallSteps(r)
    /\ req'[r].pc = "done"
    /\ req'[r].status = 200

\* C37: no step of a scanStall request, however it is answered, changes a
\* table (flags, counters, Feedback records, attendance records, rankings) or
\* a stored QR code; and the scanStall answered with success names the stall
\* that holds the scanned code and carries already_reviewed = true exactly
\* when the feedbacks table holds a record of the participant for that stall.
C37_ScanStallReadsOnly ==
    [][\A r \in Slots :
          /\ ScanStallSteps(r) => UNCHANGED <<tables, qr_code_token, cache>>
          /\ ScanStallSucceeds(r)
             => /\ req'[r].stall_id \in Stalls
                /\ qr_code_token[req'[r].stall_id] = req'[r].stall_qr_token
                /\ req'[r].reviewed
                   <=> FeedbacksOfFor(req'[r].user, req'[r].stall_id) > 0]_vars

\* a participant who has given feedback to the stall scanned its code and
\* was told so
C37_Witness ==
    \E r \in Slots :
        /\ req[r].kind = "scanStall"
        /\ req[r].pc = "done"
        /\ req[r].status = 200
        /\ req[r].reviewed
        /\ FeedbacksOfFor(req[r].user, req[r].stall_id) = 1

\* a participant who has given feedback to a stall scanned the code of
\* another stall and was told it is not reviewed
C37_WitnessNotReviewed ==
    \E r \in Slots :
        /\ req[r].kind = "scanStall"
        /\ req[r].pc = "done"
        /\ req[r].status = 200
        /\ ~req[r].reviewed
        /\ FeedbacksOf(req[r].user) = 1

(***************************************************************************)
(* The stalls offered for ranking and the stalls accepted.                 *)
(***************************************************************************)
\* stalls.is_active: the third stall of school A has been deactivated
StallActive(s) == s # "s3"

\* getMySchoolStalls, queryText:
\* WHERE st.school_id = $1 AND st.is_active = true
SchoolStalls(school_id) ==
    {s \in Stalls : StallSchool(s) = school_id /\ StallActive(s)}

\* getMySchoolStalls: the answer and the stalls it lists
GetMySchoolStalls(p) ==
    LET student == FindStudent(p)
        listed == SchoolStalls(StudentSchool(p))
    IN  IF ~student.found THEN [status |-> 404, stalls |-> {}]
        ELSE IF student.has_completed_ranking THEN [status |-> 409, stalls |-> {}]
        ELSE IF Cardinality(listed) < 3 THEN [status |-> 400, stalls |-> {}]
        ELSE [status |-> 200, stalls |-> listed]

\* C38: every stall of a committed ranking row is a stall of the
\* participant's own school with is_active = true, the condition under which
\* getMySchoolStalls lists a stall; and a stall with is_active = false has no
\* vote in any of its three counters.
C38_OnlyOfferedStallsRanked ==
    /\ \A row \in BagToSet(rankings) :
          row.stall_id \in SchoolStalls(StudentSchool(row.student_id))
    /\ \A s \in Stalls :
          ~StallActive(s) => \A col \in VoteColumns : stalls[s][col] = 0

(***************************************************************************)
(* migrations/run-migration.js: runMigration                               *)
(***************************************************************************)
\* The text of 001_initial_schema.sql after its comment lines are removed,
\* as a sequence of pieces: a semicolon, a $$ mark, two long texts ("A",
\* "B": the body of a statement) and a short text ("s").
MaxFileTokens == 5
Pieces == {"A", "B", "s", ";", "$$"}
PieceLength(c) == IF c \in {"A", "B"} THEN 12 ELSE IF c = "s" THEN 3
                  ELSE IF c = "$$" THEN 2 ELSE 1
MigrationFiles == UNION {[1..n -> Pieces] : n \in 0..MaxFileTokens}

RECURSIVE TextLength(_)
\* stmt.length
TextLength(text) ==
    IF text = <<>> THEN 0 ELSE PieceLength(Head(text)) + TextLength(Tail(text))

\* if (stmt && stmt.length > 10)
LongEnough(text) == TextLength(text) > 10

RECURSIVE SplitFrom(_, _, _, _, _)
\* the loop over the characters of migrationSQL: a $$ mark toggles
\* inDollarQuote; a semicolon outside $$ ends the current statement, which is
\* kept when it is long enough; what is left after the last semicolon is a
\* statement too when it is long enough
SplitFrom(migrationSQL, i, current, inDollarQuote, statements) ==
    IF i > Len(migrationSQL)
    THEN IF LongEnough(current) THEN Append(statements, current) ELSE statements
    ELSE LET char == migrationSQL[i]
             text == Append(current, char)
             quoted == IF char = "$$" THEN ~inDollarQuote ELSE inDollarQuote
         IN  IF char = ";" /\ ~quoted
             THEN SplitFrom(migrationSQL, i + 1, <<>>, quoted,
                            IF LongEnough(text) THEN Append(statements, text)
                            ELSE statements)
             ELSE SplitFrom(migrationSQL, i + 1, text, quoted, statements)

\* the statements of the file, in file order
SplitStatements(migrationSQL) == SplitFrom(migrationSQL, 1, <<>>, FALSE, <<>>)

\* the run of the migration: sent are the statements handed to sql(), in the
\* order they were handed over, executed counts those that succeeded
MigrationNotRun(file) ==
    [pc |-> "read", file |-> file, statements |-> <<>>, sent |-> <<>>,
     executed |-> 0, failed |-> FALSE, exited |-> FALSE, code |-> 0]

\* catch (error) { ...; process.exit(1) }
Exit(run, code) == [run EXCEPT !.pc = "exited", !.exited = TRUE, !.code = code]

InitMigration ==
    /\ students = [p \in Students |-> StudentRow0]
    /\ stalls = [s \in Stalls |-> StallRow0]
    /\ volunteers = [v \in Volunteers |-> VolunteerRow0]
    /\ feedbacks = EmptyBag
    /\ rankings = EmptyBag
    /\ check_in_outs = <<>>
    /\ req = [r \in Slots |-> BlankReq]
    /\ nreq = [ranking |-> 0, scan |-> 0, feedback |-> 0]
    /\ raced = [p \in Students |-> FALSE]
    /\ now = 0
    /\ qr_code_token = [x \in Students \cup Stalls |-> OldToken(x)]
    /\ cache = {OldToken(x) : x \in Students \cup Stalls}
    /\ script \in {MigrationNotRun(file) : file \in MigrationFiles}

\* fs.readFileSync, the removal of comments and the split into statements;
\* a file that cannot be read throws
MgRead ==
    /\ script.pc = "read"
    /\ \E readable \in BOOLEAN :
          script' = IF readable
                    THEN [script EXCEPT !.pc = "execute",
                                        !.statements = SplitStatements(script.file)]
                    ELSE Exit(script, 1)
    /\ UNCHANGED <<tables, req, nreq, raced, now, qr_code_token, cache>>

\* a loop that goes on to the next statement after one has failed
MgExecute_KeepGoing ==
    /\ script.pc = "execute"
    /\ script.executed + (IF script.failed THEN 1 ELSE 0) < Len(script.statements)
    /\ \E succeeds \in BOOLEAN :
          LET statement == script.statements[Len(script.sent) + 1]
              run == [script EXCEPT !.sent = Append(@, statement)]
          IN  script' = IF succeeds THEN [run EXCEPT !.executed = @ + 1]
                        ELSE [run EXCEPT !.failed = TRUE]
    /\ UNCHANGED <<tables, req, nreq, raced, now, qr_code_token, cache>>

\* for (const statement of statements) { await sql(statement); executed++ }:
\* one statement per step; a statement that fails is thrown on to the outer
\* catch, which exits with code 1
MgExecute ==
    /\ script.pc = "execute"
    /\ script.executed < Len(script.statements)
    /\ \E succeeds \in BOOLEAN :
          LET statement == script.statements[script.executed + 1]
              run == [script EXCEPT !.sent = Append(@, statement)]
          IN  script' = IF succeeds THEN [run EXCEPT !.executed = @ + 1]
                        ELSE Exit([run EXCEPT !.failed = TRUE], 1)
    /\ UNCHANGED <<tables, req, nreq, raced, now, qr_code_token, cache>>

\* after the loop: the query that lists the tables
MgVerifyTables ==
    /\ script.pc = "execute"
    /\ script.executed = Len(script.statements)
    /\ \E succeeds \in BOOLEAN :
          script' = IF succeeds THEN [script EXCEPT !.pc = "countSchools"]
                    ELSE Exit(script, 1)
    /\ UNCHANGED <<tables, req, nreq, raced, now, qr_code_token, cache>>

\* SELECT COUNT(*) FROM schools; process.exit(0)
MgCountSchools ==
    /\ script.pc = "countSchools"
    /\ \E succeeds \in BOOLEAN :
          script' = IF succeeds THEN Exit(script, 0) ELSE Exit(script, 1)
    /\ UNCHANGED <<tables, req, nreq, raced, now, qr_code_token, cache>>

NextMigration == MgRead \/ MgExecute \/ MgVerifyTables \/ MgCountSchools

SpecMigration == InitMigration /\ [][NextMigration]_vars

\* s is the beginning of t
IsPrefix(s, t) == Len(s) <= Len(t) /\ s = SubSeq(t, 1, Len(s))

\* C39: the statements handed to the database are, at every moment, the
\* first ones of the split file in file order, a step hands over at most one,
\* and once one has failed no other is handed over and the run has exited
\* with code 1; a run that has exited with code 0 has handed over every
\* statement of the file and none has failed.
C39_MigrationStopsAtFirstFailure ==
    /\ [](/\ IsPrefix(script.sent, SplitStatements(script.file))
          /\ script.failed => script.exited /\ script.code = 1
          /\ (script.exited /\ script.code = 0)
             => /\ script.sent = SplitStatements(script.file)
                /\ script.executed = Len(script.sent)
                /\ ~script.failed)
    /\ [][/\ Len(script'.sent) <= Len(script.sent) + 1
          /\ IsPrefix(script.sent, script'.sent)
          /\ script.failed => script'.sent = script.sent
          /\ script.exited => script' = script]_vars

\* the second statement of three failed: the run exited with code 1 and the
\* third was never handed over
C39_Witness ==
    /\ script.exited
    /\ script.code = 1
    /\ script.failed
    /\ Len(script.sent) = 2
    /\ script.executed = 1
    /\ Len(SplitStatements(script.file)) = 3

\* a run of a file with two different statements and a quoted semicolon
\* exited with code 0
C39_WitnessCompleted ==
    /\ script.exited
    /\ script.code = 0
    /\ Len(script.sent) = 2
    /\ script.sent[1] # script.sent[2]
    /\ \E k \in 1..2 : \E j \in 1..(Len(script.sent[k]) - 1) : script.sent[k][j] = ";"

====
